---------------------------- MODULE Spec2Model ----------------------------
(***************************************************************************)
(* Deep Space D-6: the game rules engine (state/reducer.ts, logic/deck.ts, *)
(* logic/threats.ts, logic/stations.ts, logic/dice.ts) as a state machine. *)
(*                                                                         *)
(* The program state is the immutable GameState snapshot held by the       *)
(* reducer (variable state) and the module-level threat instance counter   *)
(* of logic/threats.ts (variable instanceCounter).  Every reducer case is  *)
(* an operator from the pair of both (a "world" record [s, ic]) and the    *)
(* action payload to the next world; random outcomes (shuffles, re-rolled  *)
(* faces) are extra arguments chosen by the actions.                       *)
(*                                                                         *)
(* Representation:                                                         *)
(*  - a ThreatCard is its id (a string); Card(id) is the template;         *)
(*  - an ActiveThreat id `${card.id}-${n}` is the number n: the counter is *)
(*    never reused, so n alone identifies the instance;                    *)
(*  - a die location is [at, tid]: at is "pool", "infirmary", "scanners",  *)
(*    a station id, or "threat" with tid the instance (`threat-${id}`);    *)
(*  - null is "none" (cards, faces, loss reason) or NoDie (die ids);       *)
(*  - tacticalDice, awayMission and usedStationActions are arrays to which *)
(*    the code only appends values not already present and of which it     *)
(*    reads only length and membership: they are modelled as sets;         *)
(*  - log is the length of the log array; the entries of the activation    *)
(*    pass, whose text the reducer inspects, are sequences of fragments.   *)
(***************************************************************************)
EXTENDS Integers, Sequences, FiniteSets, TLC

VARIABLES state, instanceCounter

vars == <<state, instanceCounter>>

\* ---------------------------------------------------------------- types

CrewFaces == {"commander", "tactical", "medical", "science", "engineering", "threat"}

ThreatSymbols == {"skull", "lightning", "alien", "warning", "hazard", "nova"}

StationIds == {"commander", "tactical", "engineering", "medical", "science",
               "scanners", "infirmary"}

Difficulties == {"easy", "normal", "hard"}

NoDie == -1

NoThreat == 0

NoResolution == [face |-> "none", count |-> 0]

Loc(at) == [at |-> at, tid |-> NoThreat]

ThreatLoc(tid) == [at |-> "threat", tid |-> tid]

Range(f) == {f[i] : i \in DOMAIN f}

Min(a, b) == IF a < b THEN a ELSE b

Max(a, b) == IF a > b THEN a ELSE b

\* ---------------------------------------------------------------- deck.ts

DONT_PANIC_COUNTS(difficulty) ==
    CASE difficulty = "easy" -> 6
      [] difficulty = "normal" -> 3
      [] difficulty = "hard" -> 0

CardTemplate(id, name, kind, activation, maxHealth, resolution, boss, barrier, immediate) ==
    [id |-> id, name |-> name, kind |-> kind, activation |-> activation,
     maxHealth |-> maxHealth, resolution |-> resolution, isOuroboros |-> boss,
     isBarrier |-> barrier, immediateOnReveal |-> immediate]

Req(face, count) == [face |-> face, count |-> count]

Card(id) ==
    CASE id = "dont-panic" ->
           CardTemplate(id, "Don't Panic", "filler", "skull", 0, NoResolution, FALSE, FALSE, FALSE)
      [] id = "panel-explosion" ->
           CardTemplate(id, "Panel Explosion", "internal", "warning", 0, Req("engineering", 1), FALSE, FALSE, FALSE)
      [] id \in {"distracted", "distracted-2", "distracted-3"} ->
           CardTemplate(id, "Distracted", "internal", "nova", 0, NoResolution, FALSE, FALSE, TRUE)
      [] id = "friendly-fire" ->
           CardTemplate(id, "Friendly Fire", "internal", "lightning", 0, Req("tactical", 1), FALSE, FALSE, FALSE)
      [] id = "boost-morale" ->
           CardTemplate(id, "Boost Morale", "internal", "nova", 0, Req("commander", 1), FALSE, FALSE, FALSE)
      [] id = "nebula" ->
           CardTemplate(id, "Nebula", "internal", "hazard", 0, Req("science", 2), FALSE, FALSE, FALSE)
      [] id = "time-warp" ->
           CardTemplate(id, "Time Warp", "internal", "nova", 0, Req("science", 2), FALSE, FALSE, FALSE)
      [] id = "pandemic" ->
           CardTemplate(id, "Pandemic", "internal", "hazard", 0, Req("medical", 2), FALSE, FALSE, FALSE)
      [] id = "spore-infestation" ->
           CardTemplate(id, "Spore: Infestation", "internal", "alien", 0, Req("medical", 1), FALSE, FALSE, FALSE)
      [] id = "robot-uprising" ->
           CardTemplate(id, "Robot Uprising", "internal", "warning", 0, Req("tactical", 2), FALSE, FALSE, FALSE)
      [] id = "comms-offline" ->
           CardTemplate(id, "Comms Offline", "internal", "lightning", 0, Req("engineering", 2), FALSE, FALSE, FALSE)
      [] id \in {"strike-bombers", "strike-bombers-2"} ->
           CardTemplate(id, "Strike Bombers", "external", "lightning", 3, NoResolution, FALSE, FALSE, FALSE)
      [] id \in {"scout", "scout-2"} ->
           CardTemplate(id, "Scout", "external", "hazard", 2, NoResolution, FALSE, FALSE, FALSE)
      [] id = "pirates" ->
           CardTemplate(id, "Pirates", "external", "skull", 4, NoResolution, FALSE, FALSE, FALSE)
      [] id = "space-pirates" ->
           CardTemplate(id, "Space Pirates", "external", "skull", 5, NoResolution, FALSE, FALSE, FALSE)
      [] id = "orbital-cannon" ->
           CardTemplate(id, "Orbital Cannon", "external", "warning", 6, NoResolution, FALSE, FALSE, FALSE)
      [] id = "solar-winds-flagship" ->
           CardTemplate(id, "Solar Winds Flagship", "external", "skull", 1, NoResolution, FALSE, FALSE, TRUE)
      [] id = "hijackers" ->
           CardTemplate(id, "Hijackers", "external", "alien", 3, NoResolution, FALSE, FALSE, FALSE)
      [] id = "ouroboros-barrier" ->
           CardTemplate(id, "Ouroboros Barrier", "boss-barrier", "alien", 4, NoResolution, FALSE, TRUE, FALSE)
      [] id = "ouroboros" ->
           CardTemplate(id, "Ouroboros", "external", "alien", 8, NoResolution, TRUE, FALSE, FALSE)

CORE_CARDS ==
    << "panel-explosion", "panel-explosion", "distracted", "distracted-2", "distracted-3",
       "friendly-fire", "friendly-fire", "boost-morale", "nebula", "time-warp",
       "pandemic", "spore-infestation", "robot-uprising", "comms-offline",
       "strike-bombers", "strike-bombers-2", "scout", "scout-2", "pirates",
       "space-pirates", "orbital-cannon", "solar-winds-flagship", "hijackers",
       "ouroboros-barrier" >>

\* The indices of 1..n outside front, ascending.
RestOf(n, front) ==
    LET rest == {i \in 1..n : i \notin Range(front)}
    IN  [k \in 1..Cardinality(rest) |->
            CHOOSE i \in rest : Cardinality({j \in rest : j < i}) = k - 1]

\* A Fisher-Yates shuffle returns some permutation of items.  The outcome is
\* named by front, a sequence of distinct indices of items: the items at
\* front come first, in that order, the others follow in their input order.
\* Every permutation is the outcome of some front.
shuffle(items, front) ==
    LET rest == RestOf(Len(items), front)
    IN  [k \in 1..Len(front) |-> items[front[k]]] \o [k \in 1..Len(rest) |-> items[rest[k]]]

IsFront(front, n) ==
    /\ \A k \in DOMAIN front : front[k] \in 1..n
    /\ \A j, k \in DOMAIN front : j # k => front[j] # front[k]

\* buildDeck with the filler count of a normal game for every difficulty.
buildDeckFixedFillers(difficulty, front) ==
    LET dontPanics == [i \in 1..DONT_PANIC_COUNTS("normal") |-> "dont-panic"]
        mainDeck == shuffle(CORE_CARDS \o dontPanics, front)
    IN  Append(mainDeck, "ouroboros")

buildDeck(difficulty, front) ==
    LET dontPanics == [i \in 1..DONT_PANIC_COUNTS(difficulty) |-> "dont-panic"]
        mainDeck == shuffle(CORE_CARDS \o dontPanics, front)
    IN  Append(mainDeck, "ouroboros")

\* drawCard returns null on an empty deck, else [card, rest].
drawCardEmpty(deck) == Len(deck) = 0

drawCardTop(deck) == Head(deck)

drawCardRest(deck) == Tail(deck)

\* ---------------------------------------------------------------- dice.ts

\* A faulty formula: every die adds 1.
calculateTacticalDamagePerDie(diceCount) ==
    IF diceCount <= 0 THEN 0 ELSE diceCount

calculateTacticalDamage(diceCount) ==
    IF diceCount <= 0 THEN 0 ELSE 1 + (diceCount - 1) * 2

\* ---------------------------------------------------------------- stations.ts

\* crew.filter(pred) as the ascending sequence of the indices kept.
FilterIdx(crew, Keep(_)) ==
    LET kept == {i \in DOMAIN crew : Keep(crew[i])}
    IN  [k \in 1..Cardinality(kept) |->
            CHOOSE i \in kept : Cardinality({j \in kept : j < i}) = k - 1]

countAtStation(crew, stationId) ==
    Cardinality({i \in DOMAIN crew : crew[i].location = Loc(stationId)})

resolveEngineering(hull, maxHull, engineeringDiceCount) ==
    Min(maxHull, hull + engineeringDiceCount)

resolveMedical(crew) ==
    [i \in DOMAIN crew |->
        IF crew[i].location = Loc("infirmary")
        THEN [crew[i] EXCEPT !.location = Loc("pool")] ELSE crew[i]]

releaseFromScanners(crew) ==
    LET inScanners == {i \in DOMAIN crew : crew[i].location = Loc("scanners")}
    IN  [i \in DOMAIN crew |->
            IF i \in inScanners /\ \A j \in inScanners : i <= j
            THEN [crew[i] EXCEPT !.location = Loc("pool")] ELSE crew[i]]

resolveScience(maxShields) == maxShields

placeStasisToken(threats, threatId) ==
    [i \in DOMAIN threats |->
        IF threats[i].id = threatId
        THEN [threats[i] EXCEPT !.stasisTokens = @ + 1] ELSE threats[i]]

commanderChangeDie(crew, dieId, newFace) ==
    [i \in DOMAIN crew |->
        IF crew[i].id = dieId THEN [crew[i] EXCEPT !.face = newFace] ELSE crew[i]]

commanderRerollCount(crew) ==
    Cardinality({i \in DOMAIN crew : crew[i].location = Loc("pool")})

isThreatResolved(threat, crew) ==
    IF Card(threat.card).resolution = NoResolution THEN FALSE
    ELSE LET req == Card(threat.card).resolution
             assigned == {i \in DOMAIN crew :
                            crew[i].location = ThreatLoc(threat.id) /\ crew[i].face = req.face}
         IN  Cardinality(assigned) >= req.count

\* A faulty release: the dice stay on the resolved threat.
resolveThreatCrewStranded(crew, threatId) == crew

resolveThreatCrew(crew, threatId) ==
    [i \in DOMAIN crew |->
        IF crew[i].location = ThreatLoc(threatId)
        THEN [crew[i] EXCEPT !.location = Loc("pool")] ELSE crew[i]]

resolveThreatThreats(threats, threatId) ==
    SelectSeq(threats, LAMBDA t : t.id # threatId)

\* A faulty batch: a card is drawn for every group of 3, but its dice stay
\* in the scanners.
processScannersKeepLocked(crew) ==
    LET scannerDice == {i \in DOMAIN crew : crew[i].location = Loc("scanners")}
    IN  [crew |-> crew, extraDraws |-> Cardinality(scannerDice) \div 3]

processScanners(crew) ==
    LET scannerDice == FilterIdx(crew, LAMBDA d : d.location = Loc("scanners"))
        groups == Len(scannerDice) \div 3
        toRelease == {crew[scannerDice[k]].id : k \in 1..(groups * 3)}
    IN  IF groups = 0 THEN [crew |-> crew, extraDraws |-> 0]
        ELSE [crew |-> [i \in DOMAIN crew |->
                          IF crew[i].id \in toRelease
                          THEN [crew[i] EXCEPT !.location = Loc("pool")] ELSE crew[i]],
              extraDraws |-> groups]

\* A faulty gather: the dice in the scanners come back as well.
gatherCrewFromScanners(crew, activeThreats) ==
    LET activeThreatIds == {activeThreats[k].id : k \in DOMAIN activeThreats}
    IN  [i \in DOMAIN crew |->
            IF crew[i].location = Loc("infirmary") THEN crew[i]
            ELSE IF crew[i].location.at = "threat" /\ crew[i].location.tid \in activeThreatIds
                 THEN crew[i]
                 ELSE [crew[i] EXCEPT !.location = Loc("pool")]]

gatherCrew(crew, activeThreats) ==
    LET activeThreatIds == {activeThreats[k].id : k \in DOMAIN activeThreats}
    IN  [i \in DOMAIN crew |->
            IF crew[i].location \in {Loc("infirmary"), Loc("scanners")} THEN crew[i]
            ELSE IF crew[i].location.at = "threat" /\ crew[i].location.tid \in activeThreatIds
                 THEN crew[i]
                 ELSE [crew[i] EXCEPT !.location = Loc("pool")]]

isNebulaActive(threats) ==
    \E k \in DOMAIN threats : threats[k].card = "nebula" /\ ~threats[k].isDestroyed

isCommsOfflineActive(threats) ==
    \E k \in DOMAIN threats : threats[k].card = "comms-offline" /\ ~threats[k].isDestroyed

isTimeWarpActive(threats) ==
    \E k \in DOMAIN threats : threats[k].card = "time-warp" /\ ~threats[k].isDestroyed

canAssignToStation(die, stationId, commsOfflineActive) ==
    /\ die.location = Loc("pool")
    /\ stationId \notin {"infirmary", "scanners"}
    /\ ~(commsOfflineActive /\ stationId = "commander")
    /\ stationId \in {"commander", "tactical", "medical", "science", "engineering"}
    /\ die.face = stationId

canAssignToThreat(die, threat, phase) ==
    /\ phase = "assigning"
    /\ die.location = Loc("pool")
    /\ Card(threat.card).kind = "internal"
    /\ Card(threat.card).resolution # NoResolution
    /\ die.face = Card(threat.card).resolution.face

\* ---------------------------------------------------------------- threats.ts

createActiveThreat(card, n) ==
    [id |-> n, card |-> card, health |-> Card(card).maxHealth, stasisTokens |-> 0,
     awayMission |-> {}, isDestroyed |-> FALSE]

\* A log entry is the sequence of the text fragments it is put together from.
applyDamageLog(shields, hullDmg, shieldDmg) ==
    (IF shieldDmg > 0
     THEN IF shieldDmg - Min(shields, shieldDmg) > 0
          THEN << <<"shield damage - shields depleted, hull damage overflow.">> >>
          ELSE << <<"shield damage.">> >>
     ELSE << >>)
    \o
    (IF hullDmg > 0
     THEN IF Min(shields - Min(shields, IF shieldDmg > 0 THEN shieldDmg ELSE 0), hullDmg) > 0
          THEN << <<"hull damage - shields absorbed.">> >>
          ELSE << <<"hull damage.">> >>
     ELSE << >>)

\* A faulty result: shield damage beyond the shields is dropped instead of
\* passed on to the hull.
applyDamageNoOverflow(hull, shields, hullDmg, shieldDmg) ==
    LET actual == IF shieldDmg > 0 THEN Min(shields, shieldDmg) ELSE 0
        shields1 == shields - actual
        absorbed == IF hullDmg > 0 THEN Min(shields1, hullDmg) ELSE 0
        remaining == IF hullDmg > 0 THEN hullDmg - absorbed ELSE 0
    IN  [hull |-> Max(0, hull - remaining), shields |-> Max(0, shields1 - absorbed),
         log |-> applyDamageLog(shields, hullDmg, shieldDmg)]

\* A faulty result: the two Math.max(0, ...) are left out.
applyDamageUnfloored(hull, shields, hullDmg, shieldDmg) ==
    LET actual == IF shieldDmg > 0 THEN Min(shields, shieldDmg) ELSE 0
        overflow == IF shieldDmg > 0 THEN shieldDmg - actual ELSE 0
        shields1 == shields - actual
        hull1 == IF overflow > 0 THEN hull - overflow ELSE hull
        absorbed == IF hullDmg > 0 THEN Min(shields1, hullDmg) ELSE 0
        remaining == IF hullDmg > 0 THEN hullDmg - absorbed ELSE 0
    IN  [hull |-> hull1 - remaining, shields |-> shields1 - absorbed,
         log |-> applyDamageLog(shields, hullDmg, shieldDmg)]

applyDamage(hull, shields, hullDmg, shieldDmg) ==
    LET actual == IF shieldDmg > 0 THEN Min(shields, shieldDmg) ELSE 0
        overflow == IF shieldDmg > 0 THEN shieldDmg - actual ELSE 0
        shields1 == shields - actual
        hull1 == IF overflow > 0 THEN hull - overflow ELSE hull
        absorbed == IF hullDmg > 0 THEN Min(shields1, hullDmg) ELSE 0
        remaining == IF hullDmg > 0 THEN hullDmg - absorbed ELSE 0
        shields2 == shields1 - absorbed
        hull2 == hull1 - remaining
    IN  [hull |-> Max(0, hull2), shields |-> Max(0, shields2),
         log |-> applyDamageLog(shields, hullDmg, shieldDmg)]

\* A faulty target test: the barrier does not shield Ouroboros.
canTargetThreatPastBarrier(threat, allThreats) ==
    IF Card(threat.card).kind # "external" /\ Card(threat.card).kind # "boss-barrier" THEN FALSE
    ELSE IF threat.isDestroyed THEN FALSE
    ELSE IF threat.card = "orbital-cannon"
         THEN ~\E k \in DOMAIN allThreats :
                  /\ allThreats[k].id # threat.id
                  /\ Card(allThreats[k].card).kind \in {"external", "boss-barrier"}
                  /\ ~allThreats[k].isDestroyed
    ELSE TRUE

canTargetThreat(threat, allThreats) ==
    IF Card(threat.card).kind # "external" /\ Card(threat.card).kind # "boss-barrier" THEN FALSE
    ELSE IF threat.isDestroyed THEN FALSE
    ELSE IF threat.card = "orbital-cannon"
         THEN ~\E k \in DOMAIN allThreats :
                  /\ allThreats[k].id # threat.id
                  /\ Card(allThreats[k].card).kind \in {"external", "boss-barrier"}
                  /\ ~allThreats[k].isDestroyed
    ELSE IF Card(threat.card).isOuroboros
         THEN ~\E k \in DOMAIN allThreats :
                  Card(allThreats[k].card).isBarrier /\ ~allThreats[k].isDestroyed
    ELSE TRUE

\* A faulty health: the last Math.max(0, newHealth) is left out.
tacticalHealthUnfloored(t, damage, timeWarpActive) ==
    LET h0 == t.health - damage
    IN  IF timeWarpActive /\ ~Card(t.card).isOuroboros THEN Max(1, h0) ELSE h0

tacticalHealth(t, damage, timeWarpActive) ==
    LET h0 == t.health - damage
        h1 == IF timeWarpActive /\ ~Card(t.card).isOuroboros THEN Max(1, h0) ELSE h0
    IN  Max(0, h1)

applyTacticalDamage(threats, targetId, damage, timeWarpActive) ==
    [k \in DOMAIN threats |->
        IF threats[k].id # targetId THEN threats[k]
        ELSE LET newHealth == tacticalHealth(threats[k], damage, timeWarpActive)
             IN  [threats[k] EXCEPT !.health = newHealth, !.isDestroyed = (newHealth = 0)]]

\* The first count pool dice, in crew order, go to the infirmary.
sendToInfirmarySent(crew, count) ==
    Min(count, Cardinality({i \in DOMAIN crew : crew[i].location = Loc("pool")}))

sendToInfirmary(crew, count) ==
    [i \in DOMAIN crew |->
        IF /\ crew[i].location = Loc("pool")
           /\ Cardinality({j \in DOMAIN crew : j < i /\ crew[j].location = Loc("pool")}) < count
        THEN [crew[i] EXCEPT !.location = Loc("infirmary")] ELSE crew[i]]

sendToInfirmaryLog(crew, count) ==
    IF sendToInfirmarySent(crew, count) > 0 THEN << <<"crew sent to Infirmary.">> >> ELSE << >>

\* A faulty order: the threats activate as they are listed.
activationOrderAsListed(threats) == threats

\* [...threats].sort(internal first): the sort is stable.
activationOrder(threats) ==
    SelectSeq(threats, LAMBDA t : Card(t.card).kind = "internal")
    \o SelectSeq(threats, LAMBDA t : Card(t.card).kind # "internal")

withShipDamage(acc, hullDmg, shieldDmg) ==
    LET dmg == applyDamage(acc.hull, acc.shields, hullDmg, shieldDmg)
    IN  [acc EXCEPT !.hull = dmg.hull, !.shields = dmg.shields, !.log = @ \o dmg.log]

withInfirmary(acc, count) ==
    [acc EXCEPT !.crew = sendToInfirmary(acc.crew, count),
                !.log = @ \o sendToInfirmaryLog(acc.crew, count)]

\* The effect of one activating threat (threats.ts 168-297), after its
\* "activates!" entry is logged.
activationEffect(acc, threat) ==
    LET id == threat.card IN
    IF Card(id).isBarrier
    THEN LET regen == [acc EXCEPT !.threats =
                          [k \in DOMAIN acc.threats |->
                              IF acc.threats[k].id = threat.id
                              THEN [acc.threats[k] EXCEPT !.health = Card(id).maxHealth,
                                                          !.isDestroyed = FALSE]
                              ELSE acc.threats[k]]]
             hit == withShipDamage(regen, 2, 0)
         IN  [hit EXCEPT !.log = Append(@, <<"Ouroboros Barrier regenerated to full health!">>)]
    ELSE CASE id = "panel-explosion" -> withInfirmary(acc, 1)
           [] id \in {"distracted", "distracted-2", "distracted-3"} ->
                [acc EXCEPT !.crew = [i \in DOMAIN acc.crew |->
                                        IF acc.crew[i].location = ThreatLoc(threat.id)
                                        THEN [acc.crew[i] EXCEPT !.location = Loc("pool")]
                                        ELSE acc.crew[i]],
                            !.threats = SelectSeq(acc.threats, LAMBDA t : t.id # threat.id),
                            !.log = Append(@, <<"Distracted crew member returns to duty.">>)]
           [] id = "friendly-fire" -> withShipDamage(acc, 1, 0)
           [] id = "boost-morale" ->
                LET inInfirmary == FilterIdx(acc.crew, LAMBDA d : d.location = Loc("infirmary"))
                IN  IF Len(inInfirmary) > 0
                    THEN [acc EXCEPT !.crew = [i \in DOMAIN acc.crew |->
                                                 IF acc.crew[i].id = acc.crew[inInfirmary[1]].id
                                                 THEN [acc.crew[i] EXCEPT !.location = Loc("pool")]
                                                 ELSE acc.crew[i]],
                                     !.log = Append(@, <<"Morale boost! 1 crew recovered from Infirmary.">>)]
                    ELSE [acc EXCEPT !.log = Append(@, <<"Boost Morale: no crew in Infirmary.">>)]
           [] id = "nebula" -> withShipDamage(acc, 0, 1)
           [] id = "time-warp" ->
                [acc EXCEPT !.log = Append(@, <<"Time Warp: top discard cards shuffled back into deck.">>)]
           [] id = "pandemic" ->
                [acc EXCEPT !.crew = [i \in DOMAIN acc.crew |->
                                        IF acc.crew[i].location = Loc("pool")
                                        THEN [acc.crew[i] EXCEPT !.location = Loc("infirmary")]
                                        ELSE acc.crew[i]],
                            !.log = Append(@, <<"Pandemic! crew sent to Infirmary.">>)]
           [] id = "spore-infestation" -> withInfirmary(acc, 2)
           [] id = "robot-uprising" -> withInfirmary(acc, 2)
           [] id = "comms-offline" ->
                [acc EXCEPT !.extraDraw = TRUE,
                            !.log = Append(@, <<"Comms Offline: draw 1 extra threat card this turn.">>)]
           [] id \in {"strike-bombers", "strike-bombers-2"} -> withShipDamage(acc, 1, 0)
           [] id \in {"scout", "scout-2"} -> withShipDamage(acc, 0, 1)
           [] id = "pirates" -> withShipDamage(acc, 2, 0)
           [] id = "space-pirates" -> withShipDamage(acc, 2, 1)
           [] id = "orbital-cannon" -> withShipDamage(acc, 3, 0)
           [] id = "hijackers" -> withInfirmary(acc, 1)
           [] id = "ouroboros" -> withShipDamage(acc, 3, 0)
           [] OTHER -> acc

\* A faulty iteration: a destroyed barrier is passed over like any other
\* destroyed threat.
activateOneLiveOnly(acc, threat, rolledFace) ==
    LET c == Card(threat.card)
        found == {k \in DOMAIN acc.threats : acc.threats[k].id = threat.id}
    IN  IF c.kind = "filler" THEN acc
        ELSE IF c.activation # rolledFace THEN acc
        ELSE IF threat.isDestroyed THEN acc
        ELSE IF found = {} THEN acc
        ELSE LET current == acc.threats[CHOOSE k \in found : \A j \in found : k <= j]
             IN  IF current.stasisTokens > 0
                 THEN [acc EXCEPT !.threats =
                          [k \in DOMAIN acc.threats |->
                              IF acc.threats[k].id = threat.id
                              THEN [acc.threats[k] EXCEPT !.stasisTokens = @ - 1]
                              ELSE acc.threats[k]],
                          !.log = Append(@, <<c.name, " activation suppressed by stasis token.">>)]
                 ELSE activationEffect([acc EXCEPT !.log = Append(@, <<c.name, " activates!">>)],
                                       threat)

\* One iteration of the loop of activateThreats (threats.ts 150-298).
activateOne(acc, threat, rolledFace) ==
    LET c == Card(threat.card)
        found == {k \in DOMAIN acc.threats : acc.threats[k].id = threat.id}
    IN  IF c.kind = "filler" THEN acc
        ELSE IF c.activation # rolledFace THEN acc
        ELSE IF threat.isDestroyed /\ ~c.isBarrier THEN acc
        ELSE IF found = {} THEN acc
        ELSE LET current == acc.threats[CHOOSE k \in found : \A j \in found : k <= j]
             IN  IF current.stasisTokens > 0
                 THEN [acc EXCEPT !.threats =
                          [k \in DOMAIN acc.threats |->
                              IF acc.threats[k].id = threat.id
                              THEN [acc.threats[k] EXCEPT !.stasisTokens = @ - 1]
                              ELSE acc.threats[k]],
                          !.log = Append(@, <<c.name, " activation suppressed by stasis token.">>)]
                 ELSE activationEffect([acc EXCEPT !.log = Append(@, <<c.name, " activates!">>)],
                                       threat)

RECURSIVE activateLoop(_, _, _, _)
activateLoop(acc, ordered, i, rolledFace) ==
    IF i > Len(ordered) THEN acc
    ELSE activateLoop(activateOne(acc, ordered[i], rolledFace), ordered, i + 1, rolledFace)

activateThreats(s, rolledFace) ==
    activateLoop([hull |-> s.hull, shields |-> s.shields, threats |-> s.activeThreats,
                  crew |-> s.crew, log |-> << >>, extraDraw |-> FALSE],
                 activationOrder(s.activeThreats), 1, rolledFace)

\* A faulty win test: the threats in play are not looked at.
checkWinOnEmptyDeck(deck, activeThreats) == Len(deck) = 0

checkWin(deck, activeThreats) ==
    IF Len(deck) > 0 THEN FALSE
    ELSE ~\E k \in DOMAIN activeThreats :
            /\ \/ Card(activeThreats[k].card).kind = "external"
               \/ Card(activeThreats[k].card).isOuroboros
               \/ Card(activeThreats[k].card).isBarrier
            /\ ~activeThreats[k].isDestroyed

checkCrewLoss(crew) ==
    \A i \in DOMAIN crew : crew[i].location.at \in {"infirmary", "scanners", "threat"}

\* ---------------------------------------------------------------- reducer.ts

\* A faulty crew: the dice are numbered from 1.
InitialCrewFromOne ==
    [i \in 1..6 |-> [id |-> i, face |-> "tactical", location |-> Loc("pool")]]

InitialCrew ==
    [i \in 1..6 |-> [id |-> i - 1, face |-> "tactical", location |-> Loc("pool")]]

makeInitialState ==
    [status |-> "idle", phase |-> "rolling", difficulty |-> "normal",
     hull |-> 8, maxHull |-> 8, shields |-> 4, maxShields |-> 4,
     crew |-> InitialCrew, activeThreats |-> << >>, deck |-> << >>, discard |-> << >>,
     threatDieFace |-> "none", selectedDieId |-> NoDie, tacticalDice |-> {},
     log |-> 0, lossReason |-> "none", turnNumber |-> 0, elapsedSeconds |-> 0,
     drawnCard |-> "none", nebulaActive |-> FALSE, commsOfflineActive |-> FALSE,
     setupDrawsRemaining |-> 0, usedStationActions |-> {}]

World(s, ic) == [s |-> s, ic |-> ic]

withPassiveFlags(s) ==
    [s EXCEPT !.nebulaActive = isNebulaActive(s.activeThreats),
              !.commsOfflineActive = isCommsOfflineActive(s.activeThreats)]

\* A faulty evaluation: the crew is looked at before the hull.
withCrewCheckedFirst(s) ==
    IF s.status = "playing" /\ checkCrewLoss(s.crew)
    THEN [s EXCEPT !.status = "lost", !.lossReason = "crew"]
    ELSE IF s.hull <= 0 THEN [s EXCEPT !.status = "lost", !.lossReason = "hull"]
    ELSE IF s.status = "playing" /\ checkWin(s.deck, s.activeThreats)
         THEN [s EXCEPT !.status = "won"]
    ELSE s

withWinLossCheck(s) ==
    IF s.hull <= 0 THEN [s EXCEPT !.status = "lost", !.lossReason = "hull"]
    ELSE IF s.status = "playing" /\ checkCrewLoss(s.crew)
         THEN [s EXCEPT !.status = "lost", !.lossReason = "crew"]
    ELSE IF s.status = "playing" /\ checkWin(s.deck, s.activeThreats)
         THEN [s EXCEPT !.status = "won"]
    ELSE s

\* The first pool die, in crew order (crew.find), or 0 when there is none.
FirstPoolIdx(crew) ==
    LET pool == {i \in DOMAIN crew : crew[i].location = Loc("pool")}
    IN  IF pool = {} THEN 0 ELSE CHOOSE i \in pool : \A j \in pool : i <= j

\* applyRevealEffect and drawAndProcessCard (reducer.ts 91-183) on a drawn
\* non-filler card, s being the state with the card already off the deck and
\* its "Threat card drawn" entry logged.
applyRevealEffect(w, card) ==
    LET s == w.s IN
    IF ~Card(card).immediateOnReveal THEN w
    ELSE IF card = "solar-winds-flagship"
    THEN LET totalDmg == 5
             absorbed == Min(s.shields, totalDmg)
         IN  World([s EXCEPT !.shields = s.shields - absorbed,
                             !.hull = Max(0, s.hull - (totalDmg - absorbed)),
                             !.log = @ + 1,
                             !.discard = Append(s.discard, card)], w.ic)
    ELSE IF card \in {"distracted", "distracted-2", "distracted-3"}
    THEN LET newThreat == createActiveThreat(card, w.ic + 1)
             poolDie == FirstPoolIdx(s.crew)
         IN  World([s EXCEPT !.crew = [i \in DOMAIN s.crew |->
                                         IF i = poolDie
                                         THEN [s.crew[i] EXCEPT !.location = ThreatLoc(newThreat.id)]
                                         ELSE s.crew[i]],
                             !.activeThreats = Append(s.activeThreats, newThreat),
                             !.log = @ + 1], w.ic + 1)
    ELSE w

\* A faulty draw: a filler card is put in play like a threat.
drawAndProcessCardFillerInPlay(w) ==
    LET s == w.s IN
    IF drawCardEmpty(s.deck) THEN w
    ELSE LET card == drawCardTop(s.deck)
             drawn == [s EXCEPT !.deck = drawCardRest(s.deck), !.log = @ + 1,
                                !.drawnCard = card]
         IN  IF ~Card(card).immediateOnReveal
             THEN World([drawn EXCEPT !.activeThreats =
                            Append(s.activeThreats, createActiveThreat(card, w.ic + 1))],
                        w.ic + 1)
             ELSE applyRevealEffect(World(drawn, w.ic), card)

drawAndProcessCard(w) ==
    LET s == w.s IN
    IF drawCardEmpty(s.deck) THEN w
    ELSE LET card == drawCardTop(s.deck)
             drawn == [s EXCEPT !.deck = drawCardRest(s.deck), !.log = @ + 1,
                                !.drawnCard = card]
         IN  IF Card(card).kind = "filler"
             THEN World([drawn EXCEPT !.discard = Append(s.discard, card), !.log = @ + 1], w.ic)
             ELSE IF ~Card(card).immediateOnReveal
             THEN World([drawn EXCEPT !.activeThreats =
                            Append(s.activeThreats, createActiveThreat(card, w.ic + 1))],
                        w.ic + 1)
             ELSE applyRevealEffect(World(drawn, w.ic), card)

RECURSIVE drawTimes(_, _, _)
\* n draws in a row; each is followed by extraLog further log entries.
drawTimes(w, n, extraLog) ==
    IF n = 0 THEN w
    ELSE LET d == drawAndProcessCard(w)
         IN  drawTimes(World([d.s EXCEPT !.log = @ + extraLog], d.ic), n - 1, extraLog)

RECURSIVE resolveLoop(_, _, _)
\* processResolvedThreats: the loop runs over the threats of the input state.
resolveLoop(cur, threats, i) ==
    IF i > Len(threats) THEN cur
    ELSE LET threat == threats[i]
         IN  IF Card(threat.card).kind # "internal" THEN resolveLoop(cur, threats, i + 1)
             ELSE IF isThreatResolved(threat, cur.crew)
             THEN resolveLoop([cur EXCEPT
                                 !.activeThreats = resolveThreatThreats(cur.activeThreats, threat.id),
                                 !.crew = resolveThreatCrew(cur.crew, threat.id),
                                 !.discard = Append(cur.discard, threat.card),
                                 !.log = @ + 1],
                              threats, i + 1)
             ELSE resolveLoop(cur, threats, i + 1)

processResolvedThreats(s) == resolveLoop(s, s.activeThreats, 1)

startNewGame(w, difficulty, front) ==
    LET s0 == [makeInitialState EXCEPT !.status = "playing", !.phase = "rolling",
                                       !.difficulty = difficulty,
                                       !.deck = buildDeck(difficulty, front),
                                       !.crew = InitialCrew, !.log = 1, !.turnNumber = 1,
                                       !.setupDrawsRemaining = 2]
        d == drawAndProcessCard(World(s0, w.ic))
    IN  World(withWinLossCheck(withPassiveFlags([d.s EXCEPT !.phase = "drawing"])), d.ic)

\* The die with the given id (crew.find), as an index of crew, or 0.
DieIdx(crew, dieId) ==
    LET hit == {i \in DOMAIN crew : crew[i].id = dieId}
    IN  IF hit = {} THEN 0 ELSE CHOOSE i \in hit : \A j \in hit : i <= j

\* The threat with the given id (activeThreats.find), as an index, or 0.
ThreatIdx(threats, threatId) ==
    LET hit == {k \in DOMAIN threats : threats[k].id = threatId}
    IN  IF hit = {} THEN 0 ELSE CHOOSE k \in hit : \A j \in hit : k <= j

\* The position of crew[i] among the pool dice (poolDice.findIndex), from 1.
PoolIndex(crew, i) ==
    Cardinality({j \in DOMAIN crew : j <= i /\ crew[j].location = Loc("pool")})

\* A phase guard that leaves out the status test.
LegalInAnyStatus(s, phase) == s.phase = phase

\* The guard every case but NEW_GAME, __TEST_LOAD_STATE and TICK starts with.
Legal(s, phase) == s.status = "playing" /\ s.phase = phase

reduceTick(w) ==
    IF w.s.status # "playing" THEN w
    ELSE World([w.s EXCEPT !.elapsedSeconds = @ + 1], w.ic)

reduceStartRoll(w) ==
    IF ~Legal(w.s, "rolling") THEN w
    ELSE World([w.s EXCEPT !.log = 1], w.ic)

reduceRollComplete(w, faces) ==
    LET s == w.s IN
    IF ~Legal(s, "rolling") THEN w
    ELSE LET rolled == [i \in DOMAIN s.crew |->
                          IF s.crew[i].location # Loc("pool") THEN s.crew[i]
                          ELSE IF PoolIndex(s.crew, i) <= Len(faces)
                               THEN [s.crew[i] EXCEPT !.face = faces[PoolIndex(s.crew, i)]]
                               ELSE s.crew[i]]
             newThreatDice == {i \in DOMAIN rolled :
                                 rolled[i].location = Loc("pool") /\ rolled[i].face = "threat"}
             locked == [i \in DOMAIN rolled |->
                          IF i \in newThreatDice
                          THEN [rolled[i] EXCEPT !.location = Loc("scanners")] ELSE rolled[i]]
             scan == processScanners(locked)
             s1 == [s EXCEPT !.crew = scan.crew,
                             !.log = @ + (IF newThreatDice # {} THEN 1 ELSE 0)]
             d == drawTimes(World(s1, w.ic), scan.extraDraws, 1)
         IN  World(withWinLossCheck(withPassiveFlags(
                       [d.s EXCEPT !.phase = "assigning", !.drawnCard = "none"])), d.ic)

reduceSelectDie(w, dieId) ==
    IF ~Legal(w.s, "assigning") THEN w
    ELSE World([w.s EXCEPT !.selectedDieId = dieId], w.ic)

reduceAssignToStation(w, dieId, stationId) ==
    LET s == w.s
        die == DieIdx(s.crew, dieId)
    IN  IF ~Legal(s, "assigning") THEN w
        ELSE IF die = 0 \/ s.crew[die].location # Loc("pool") THEN w
        ELSE World(withPassiveFlags(
                 [s EXCEPT !.crew[die].location = Loc(stationId),
                           !.tacticalDice = IF stationId = "tactical"
                                            THEN @ \cup {dieId} ELSE @,
                           !.selectedDieId = NoDie,
                           !.log = @ + 1]), w.ic)

reduceAssignToThreat(w, dieId, threatId) ==
    LET s == w.s
        die == DieIdx(s.crew, dieId)
        threat == ThreatIdx(s.activeThreats, threatId)
    IN  IF ~Legal(s, "assigning") THEN w
        ELSE IF die = 0 \/ threat = 0 \/ s.crew[die].location # Loc("pool") THEN w
        ELSE IF \/ Card(s.activeThreats[threat].card).kind # "internal"
                \/ Card(s.activeThreats[threat].card).resolution = NoResolution THEN w
        ELSE IF s.crew[die].face # Card(s.activeThreats[threat].card).resolution.face THEN w
        ELSE LET sent == withPassiveFlags(
                     [s EXCEPT !.crew[die].location = ThreatLoc(threatId),
                               !.activeThreats[threat].awayMission = @ \cup {dieId},
                               !.selectedDieId = NoDie,
                               !.log = @ + 1])
             IN  World(withPassiveFlags(processResolvedThreats(sent)), w.ic)

reduceUseEngineering(w) ==
    LET s == w.s
        engCount == countAtStation(s.crew, "engineering")
    IN  IF ~Legal(s, "assigning") THEN w
        ELSE IF engCount = 0 THEN w
        ELSE World([s EXCEPT !.hull = resolveEngineering(s.hull, s.maxHull, engCount),
                             !.log = @ + 1], w.ic)

\* A faulty Medical case: the once-per-turn budget is neither read nor written.
reduceUseMedicalUnbudgeted(w) ==
    LET s == w.s IN
    IF ~Legal(s, "assigning") THEN w
    ELSE IF countAtStation(s.crew, "medical") = 0 THEN w
    ELSE World([s EXCEPT !.crew = resolveMedical(s.crew), !.log = @ + 1], w.ic)

reduceUseMedical(w) ==
    LET s == w.s IN
    IF ~Legal(s, "assigning") THEN w
    ELSE IF "USE_MEDICAL" \in s.usedStationActions THEN w
    ELSE IF countAtStation(s.crew, "medical") = 0 THEN w
    ELSE World([s EXCEPT !.crew = resolveMedical(s.crew),
                         !.usedStationActions = @ \cup {"USE_MEDICAL"},
                         !.log = @ + 1], w.ic)

reduceUseMedicalScanners(w) ==
    LET s == w.s IN
    IF ~Legal(s, "assigning") THEN w
    ELSE IF countAtStation(s.crew, "medical") = 0 THEN w
    ELSE World([s EXCEPT !.crew = releaseFromScanners(s.crew), !.log = @ + 1], w.ic)

reduceUseTactical(w, targetThreatId) ==
    LET s == w.s
        tactCount == Cardinality(s.tacticalDice)
        target == ThreatIdx(s.activeThreats, targetThreatId)
    IN  IF ~Legal(s, "assigning") THEN w
        ELSE IF tactCount = 0 THEN w
        ELSE IF target = 0 THEN w
        ELSE IF ~canTargetThreat(s.activeThreats[target], s.activeThreats) THEN w
        ELSE LET damage == calculateTacticalDamage(tactCount)
                 timeWarp == isTimeWarpActive(s.activeThreats)
                 hit == applyTacticalDamage(s.activeThreats, targetThreatId, damage, timeWarp)
                 gone == {k \in DOMAIN hit : hit[k].id = targetThreatId /\ hit[k].isDestroyed
                                              /\ ~Card(hit[k].card).isBarrier}
                 discard == s.discard \o [k \in 1..Cardinality(gone) |-> hit[target].card]
                 finalThreats == SelectSeq(hit, LAMBDA t : ~t.isDestroyed \/ Card(t.card).isBarrier)
             IN  World(withWinLossCheck(withPassiveFlags(
                     [s EXCEPT !.activeThreats = finalThreats,
                               !.discard = discard,
                               !.tacticalDice = {},
                               !.log = @ + 1])), w.ic)

\* A faulty Science case: the Nebula is not looked at.
reduceUseScienceShieldsThroughNebula(w) ==
    LET s == w.s IN
    IF ~Legal(s, "assigning") THEN w
    ELSE IF "USE_SCIENCE" \in s.usedStationActions THEN w
    ELSE IF countAtStation(s.crew, "science") = 0 THEN w
    ELSE World([s EXCEPT !.shields = resolveScience(s.maxShields),
                         !.usedStationActions = @ \cup {"USE_SCIENCE"},
                         !.log = @ + 1], w.ic)

reduceUseScienceShields(w) ==
    LET s == w.s IN
    IF ~Legal(s, "assigning") THEN w
    ELSE IF "USE_SCIENCE" \in s.usedStationActions THEN w
    ELSE IF countAtStation(s.crew, "science") = 0 THEN w
    ELSE IF s.nebulaActive THEN World([s EXCEPT !.log = @ + 1], w.ic)
    ELSE World([s EXCEPT !.shields = resolveScience(s.maxShields),
                         !.usedStationActions = @ \cup {"USE_SCIENCE"},
                         !.log = @ + 1], w.ic)

reduceUseScienceStasis(w, targetThreatId) ==
    LET s == w.s IN
    IF ~Legal(s, "assigning") THEN w
    ELSE IF "USE_SCIENCE" \in s.usedStationActions THEN w
    ELSE IF countAtStation(s.crew, "science") = 0 THEN w
    ELSE IF ThreatIdx(s.activeThreats, targetThreatId) = 0 THEN w
    ELSE World([s EXCEPT !.activeThreats = placeStasisToken(s.activeThreats, targetThreatId),
                         !.usedStationActions = @ \cup {"USE_SCIENCE"},
                         !.log = @ + 1], w.ic)

\* newFaces is the outcome of rollAllCrewDice(commanderRerollCount(crew)).
reduceUseCommanderReroll(w, newFaces) ==
    LET s == w.s IN
    IF ~Legal(s, "assigning") THEN w
    ELSE IF s.commsOfflineActive THEN w
    ELSE IF "USE_COMMANDER" \in s.usedStationActions THEN w
    ELSE IF countAtStation(s.crew, "commander") = 0 THEN w
    ELSE LET faceOf(i) == IF PoolIndex(s.crew, i) <= Len(newFaces)
                          THEN newFaces[PoolIndex(s.crew, i)] ELSE s.crew[i].face
             newThreatDice == {i \in DOMAIN s.crew :
                                 s.crew[i].location = Loc("pool") /\ faceOf(i) = "threat"}
             crew == [i \in DOMAIN s.crew |->
                        IF s.crew[i].location # Loc("pool") THEN s.crew[i]
                        ELSE IF i \in newThreatDice
                             THEN [s.crew[i] EXCEPT !.face = "threat", !.location = Loc("scanners")]
                             ELSE [s.crew[i] EXCEPT !.face = faceOf(i)]]
             scan == processScanners(crew)
             s1 == [s EXCEPT !.crew = scan.crew,
                             !.log = @ + 1 + (IF newThreatDice # {} THEN 1 ELSE 0),
                             !.usedStationActions = @ \cup {"USE_COMMANDER"}]
             d == drawTimes(World(s1, w.ic), scan.extraDraws, 0)
         IN  World(withPassiveFlags(withWinLossCheck(d.s)), d.ic)

reduceUseCommanderChange(w, targetDieId, newFace) ==
    LET s == w.s IN
    IF ~Legal(s, "assigning") THEN w
    ELSE IF s.commsOfflineActive THEN w
    ELSE IF "USE_COMMANDER" \in s.usedStationActions THEN w
    ELSE IF countAtStation(s.crew, "commander") = 0 THEN w
    ELSE LET changed == commanderChangeDie(s.crew, targetDieId, newFace)
             crew == IF newFace = "threat"
                     THEN [i \in DOMAIN changed |->
                             IF changed[i].id = targetDieId /\ changed[i].location = Loc("pool")
                             THEN [changed[i] EXCEPT !.location = Loc("scanners")]
                             ELSE changed[i]]
                     ELSE changed
         IN  World(withPassiveFlags(
                 [s EXCEPT !.crew = crew,
                           !.usedStationActions = @ \cup {"USE_COMMANDER"},
                           !.log = @ + 1]), w.ic)

\* A faulty end of the phase: the card is drawn before the hull is repaired.
reduceEndAssignPhaseDrawFirst(w) ==
    LET s == w.s
        engCount == countAtStation(s.crew, "engineering")
    IN  IF ~Legal(s, "assigning") THEN w
        ELSE LET d == drawAndProcessCard(w)
                 newHull == resolveEngineering(d.s.hull, s.maxHull, engCount)
                 afterEng == IF engCount > 0
                             THEN [d.s EXCEPT !.hull = newHull,
                                              !.log = IF newHull - d.s.hull > 0 THEN @ + 1 ELSE @]
                             ELSE d.s
             IN  World(withWinLossCheck(withPassiveFlags(
                     [afterEng EXCEPT !.phase = "drawing", !.tacticalDice = {}])), d.ic)

reduceEndAssignPhase(w) ==
    LET s == w.s
        engCount == countAtStation(s.crew, "engineering")
    IN  IF ~Legal(s, "assigning") THEN w
        ELSE LET newHull == resolveEngineering(s.hull, s.maxHull, engCount)
                 afterEng == IF engCount > 0
                             THEN [s EXCEPT !.hull = newHull,
                                            !.log = IF newHull - s.hull > 0 THEN @ + 1 ELSE @]
                             ELSE s
                 d == drawAndProcessCard(World(afterEng, w.ic))
             IN  World(withWinLossCheck(withPassiveFlags(
                     [d.s EXCEPT !.phase = "drawing", !.tacticalDice = {}])), d.ic)

\* A faulty acknowledgement: the setup sequence is not told from a turn's draw.
reduceAcknowledgeDrawNoSetup(w) ==
    IF ~Legal(w.s, "drawing") THEN w
    ELSE World([w.s EXCEPT !.phase = "activating", !.drawnCard = "none"], w.ic)

reduceAcknowledgeDraw(w) ==
    LET s == w.s IN
    IF ~Legal(s, "drawing") THEN w
    ELSE IF s.setupDrawsRemaining >= 2
    THEN LET d == drawAndProcessCard(
                      World([s EXCEPT !.drawnCard = "none", !.setupDrawsRemaining = 1], w.ic))
         IN  World(withWinLossCheck(withPassiveFlags([d.s EXCEPT !.phase = "drawing"])), d.ic)
    ELSE IF s.setupDrawsRemaining = 1
    THEN World(withPassiveFlags([s EXCEPT !.phase = "rolling", !.drawnCard = "none",
                                          !.setupDrawsRemaining = 0]), w.ic)
    ELSE World([s EXCEPT !.phase = "activating", !.drawnCard = "none"], w.ic)

reduceStartThreatRoll(w) ==
    IF ~Legal(w.s, "activating") THEN w
    ELSE World([w.s EXCEPT !.threatDieFace = "none"], w.ic)

\* l.includes('Time Warp') for a log entry of the activation pass: the card
\* name "Time Warp" and the Time Warp effect text are the only fragments of
\* that log that contain it.
includesTimeWarp(entry) ==
    \E k \in DOMAIN entry :
        entry[k] \in {"Time Warp", "Time Warp: top discard cards shuffled back into deck."}

\* state.discard.slice(-3)
lastThree(discard) ==
    SubSeq(discard, Max(1, Len(discard) - 2), Len(discard))

\* A faulty Time Warp block: fewer than 3 discarded cards are left alone.
timeWarpDeckFullGroupOnly(s, resultLog, front) ==
    IF \E k \in DOMAIN resultLog : includesTimeWarp(resultLog[k])
    THEN IF Len(s.discard) >= 3 THEN shuffle(s.deck \o lastThree(s.discard), front) ELSE s.deck
    ELSE s.deck

\* The deck after the Time Warp block of THREAT_ROLL_COMPLETE (reducer.ts
\* 620-634); front names the outcome of its shuffle loop.
timeWarpDeck(s, resultLog, front) ==
    IF \E k \in DOMAIN resultLog : includesTimeWarp(resultLog[k])
    THEN LET toReshuffle == lastThree(s.discard)
         IN  IF Len(toReshuffle) > 0 THEN shuffle(s.deck \o toReshuffle, front) ELSE s.deck
    ELSE s.deck

reduceThreatRollComplete(w, face, front) ==
    LET s == w.s IN
    IF ~Legal(s, "activating") THEN w
    ELSE LET result == activateThreats(s, face)
             after == withPassiveFlags(
                          [s EXCEPT !.hull = result.hull,
                                    !.shields = result.shields,
                                    !.activeThreats = result.threats,
                                    !.crew = result.crew,
                                    !.deck = timeWarpDeck(s, result.log, front),
                                    !.log = @ + 1 + Len(result.log),
                                    !.threatDieFace = face])
             d == IF result.extraDraw THEN drawAndProcessCard(World(after, w.ic))
                  ELSE World(after, w.ic)
         IN  World(withWinLossCheck(d.s), d.ic)

\* A faulty acknowledgement: the gathering phase is skipped.
reduceActivateIntoRolling(w) ==
    IF ~Legal(w.s, "activating") THEN w
    ELSE World([w.s EXCEPT !.phase = "rolling"], w.ic)

\* A guarded acknowledgement: it waits for the threat die to be rolled.
reduceAcknowledgeActivateAfterRoll(w) ==
    IF ~Legal(w.s, "activating") \/ w.s.threatDieFace = "none" THEN w
    ELSE World([w.s EXCEPT !.phase = "gathering"], w.ic)

reduceAcknowledgeActivate(w) ==
    IF ~Legal(w.s, "activating") THEN w
    ELSE World([w.s EXCEPT !.phase = "gathering"], w.ic)

reduceAcknowledgeGather(w) ==
    LET s == w.s IN
    IF ~Legal(s, "gathering") THEN w
    ELSE World(withWinLossCheck(withPassiveFlags(
             [s EXCEPT !.crew = gatherCrew(s.crew, s.activeThreats),
                       !.log = @ + 1,
                       !.phase = "rolling",
                       !.turnNumber = @ + 1,
                       !.tacticalDice = {},
                       !.drawnCard = "none",
                       !.selectedDieId = NoDie,
                       !.usedStationActions = {}])), w.ic)

\* gameReducer (reducer.ts 233-688).  An action is a record with the fields
\* of its TypeScript variant; front and newFaces are the random outcomes that
\* the case draws from Math.random.
gameReducer(w, a) ==
    CASE a.type = "__TEST_LOAD_STATE" -> World(a.state, w.ic)
      [] a.type = "NEW_GAME" -> startNewGame(w, a.difficulty, a.front)
      [] a.type = "TICK" -> reduceTick(w)
      [] a.type = "START_ROLL" -> reduceStartRoll(w)
      [] a.type = "ROLL_COMPLETE" -> reduceRollComplete(w, a.faces)
      [] a.type = "SELECT_DIE" -> reduceSelectDie(w, a.dieId)
      [] a.type = "ASSIGN_TO_STATION" -> reduceAssignToStation(w, a.dieId, a.stationId)
      [] a.type = "ASSIGN_TO_THREAT" -> reduceAssignToThreat(w, a.dieId, a.threatId)
      [] a.type = "USE_ENGINEERING" -> reduceUseEngineering(w)
      [] a.type = "USE_MEDICAL" -> reduceUseMedical(w)
      [] a.type = "USE_MEDICAL_SCANNERS" -> reduceUseMedicalScanners(w)
      [] a.type = "USE_TACTICAL" -> reduceUseTactical(w, a.targetThreatId)
      [] a.type = "USE_SCIENCE_SHIELDS" -> reduceUseScienceShields(w)
      [] a.type = "USE_SCIENCE_STASIS" -> reduceUseScienceStasis(w, a.targetThreatId)
      [] a.type = "USE_COMMANDER_REROLL" -> reduceUseCommanderReroll(w, a.newFaces)
      [] a.type = "USE_COMMANDER_CHANGE" -> reduceUseCommanderChange(w, a.targetDieId, a.newFace)
      [] a.type = "END_ASSIGN_PHASE" -> reduceEndAssignPhase(w)
      [] a.type = "ACKNOWLEDGE_DRAW" -> reduceAcknowledgeDraw(w)
      [] a.type = "START_THREAT_ROLL" -> reduceStartThreatRoll(w)
      [] a.type = "THREAT_ROLL_COMPLETE" -> reduceThreatRollComplete(w, a.face, a.front)
      [] a.type = "ACKNOWLEDGE_ACTIVATE" -> reduceAcknowledgeActivate(w)
      [] a.type = "ACKNOWLEDGE_GATHER" -> reduceAcknowledgeGather(w)
      [] OTHER -> w

\* ---------------------------------------------------------------- behaviour

\* Bounds of the model.
MaxTurn == 2

MaxElapsed == 1

MaxLog == 12

MaxRestart == 0

\* The world a dispatch starts from.
Now == World(state, instanceCounter)

\* One dispatch: the store replaces its state by the result w of the reducer.
Dispatch(w) ==
    /\ state' = w.s
    /\ instanceCounter' = w.ic

Init ==
    /\ state = makeInitialState
    /\ instanceCounter = 0

\* The ids a payload can name: those of the threats in play and one of none.
ThreatIds == {state.activeThreats[k].id : k \in DOMAIN state.activeThreats} \cup {NoThreat}

PoolCount == commanderRerollCount(state.crew)

Uniform(face, n) == [i \in 1..n |-> face]

NewGame(difficulties, fronts) ==
    /\ instanceCounter <= MaxRestart
    /\ \E d \in difficulties, front \in fronts :
          Dispatch(startNewGame(Now, d, front))

\* The load happens before a game is started.
TestLoadState(states) ==
    /\ state.status = "idle"
    /\ \E st \in states : Dispatch(World(st, instanceCounter))

Tick ==
    /\ state.status = "playing"
    /\ state.elapsedSeconds < MaxElapsed
    /\ Dispatch(reduceTick(Now))

StartRoll ==
    /\ Legal(state, "rolling")
    /\ Dispatch(reduceStartRoll(Now))

RollComplete(menu) ==
    /\ Legal(state, "rolling")
    /\ \E faces \in menu : Dispatch(reduceRollComplete(Now, faces))

SelectDie(dice) ==
    /\ Legal(state, "assigning")
    /\ \E d \in dice : Dispatch(reduceSelectDie(Now, d))

AssignToStation(dice, stations) ==
    /\ Legal(state, "assigning")
    /\ \E d \in dice, st \in stations :
          Dispatch(reduceAssignToStation(Now, d, st))

AssignToThreat(dice) ==
    /\ Legal(state, "assigning")
    /\ \E d \in dice, t \in ThreatIds :
          Dispatch(reduceAssignToThreat(Now, d, t))

UseEngineering ==
    /\ Legal(state, "assigning")
    /\ state.log < MaxLog
    /\ Dispatch(reduceUseEngineering(Now))

UseMedical ==
    /\ Legal(state, "assigning")
    /\ Dispatch(reduceUseMedical(Now))

UseMedicalScanners ==
    /\ Legal(state, "assigning")
    /\ state.log < MaxLog
    /\ Dispatch(reduceUseMedicalScanners(Now))

UseTactical ==
    /\ Legal(state, "assigning")
    /\ \E t \in ThreatIds : Dispatch(reduceUseTactical(Now, t))

UseScienceShields ==
    /\ Legal(state, "assigning")
    /\ state.log < MaxLog
    /\ Dispatch(reduceUseScienceShields(Now))

UseScienceStasis ==
    /\ Legal(state, "assigning")
    /\ \E t \in ThreatIds : Dispatch(reduceUseScienceStasis(Now, t))

UseCommanderReroll(faces) ==
    /\ Legal(state, "assigning")
    /\ \E f \in faces :
          Dispatch(reduceUseCommanderReroll(Now, Uniform(f, PoolCount)))

UseCommanderChange(dice, faces) ==
    /\ Legal(state, "assigning")
    /\ \E d \in dice, f \in faces :
          Dispatch(reduceUseCommanderChange(Now, d, f))

EndAssignPhase ==
    /\ Legal(state, "assigning")
    /\ Dispatch(reduceEndAssignPhase(Now))

AcknowledgeDraw ==
    /\ Legal(state, "drawing")
    /\ Dispatch(reduceAcknowledgeDraw(Now))

StartThreatRoll ==
    /\ Legal(state, "activating")
    /\ Dispatch(reduceStartThreatRoll(Now))

ThreatRollComplete(symbols, fronts) ==
    /\ Legal(state, "activating")
    /\ state.log < MaxLog
    /\ \E f \in symbols, front \in fronts :
          /\ IsFront(front, Len(state.deck) + Len(lastThree(state.discard)))
          /\ Dispatch(reduceThreatRollComplete(Now, f, front))

AcknowledgeActivate ==
    /\ Legal(state, "activating")
    /\ Dispatch(reduceAcknowledgeActivate(Now))

GatherUpTo(maxTurn) ==
    /\ Legal(state, "gathering")
    /\ state.turnNumber < maxTurn
    /\ Dispatch(reduceAcknowledgeGather(Now))

AcknowledgeGather == GatherUpTo(MaxTurn)

\* ------------------------------------------- the game played through the UI
\* components/Game/Game.tsx and components/Station/Station.tsx dispatch an
\* action only where they show its control.

\* The crew rolls that are explored (rollAllCrewDice), shortened to the pool.
Rolls == {<<"medical", "medical", "threat", "threat", "tactical", "science">>}

\* The threat die faces that are explored (rollThreatDie).
ThreatFaces == {"hazard", "nova"}

\* The outcomes of buildDeck's shuffle that are explored: Pandemic and
\* Distracted first; Time Warp, Solar Winds Flagship and Pirates first.
Fronts == {<<11, 3>>, <<10, 22, 19>>}

\* The outcomes of the Time Warp shuffle that are explored: the deck order
\* kept, and the card that was last in the deck moved to the top.
Reshuffles == {<< >>, <<Len(state.deck)>>}

\* The pool die the player picks up: the first one in crew order.
PoolHead ==
    IF FirstPoolIdx(state.crew) = 0 THEN {} ELSE {state.crew[FirstPoolIdx(state.crew)].id}

selectedDie == DieIdx(state.crew, state.selectedDieId)

canDrop(stationId) ==
    /\ state.phase = "assigning"
    /\ selectedDie # 0
    /\ stationId # "infirmary"
    /\ stationId # "scanners"
    /\ canAssignToStation(state.crew[selectedDie], stationId, state.commsOfflineActive)

\* handleRollDice dispatches START_ROLL and, 700 ms later, ROLL_COMPLETE:
\* after START_ROLL the log holds its single entry.
handleRollDice ==
    \/ StartRoll
    \/ (state.log = 1 /\ RollComplete(Rolls))

handleStationClick ==
    \E st \in StationIds : canDrop(st) /\ AssignToStation({state.selectedDieId}, {st})

handleThreatClick == AssignToThreat({state.selectedDieId})

RecoverAll ==
    /\ \E i \in DOMAIN state.crew : state.crew[i].location = Loc("infirmary")
    /\ UseMedical

FreeScanner ==
    /\ \E i \in DOMAIN state.crew : state.crew[i].location = Loc("scanners")
    /\ UseMedicalScanners

RechargeShields ==
    /\ ~state.nebulaActive
    /\ state.shields < state.maxShields
    /\ UseScienceShields

\* handleRollThreatDie dispatches START_THREAT_ROLL and, 900 ms later,
\* THREAT_ROLL_COMPLETE; its button shows while threatDieFace is null.
handleRollThreatDie ==
    /\ state.threatDieFace = "none"
    /\ \/ StartThreatRoll
       \/ ThreatRollComplete(ThreatFaces, Reshuffles)

ContinueActivate ==
    /\ state.threatDieFace # "none"
    /\ AcknowledgeActivate

\* The clock is explored in the gathering phase: TICK changes elapsedSeconds
\* only, and no case of the reducer reads it.
ClockTick == state.phase = "gathering" /\ Tick

Next ==
    \/ NewGame({"hard"}, Fronts)
    \/ ClockTick
    \/ handleRollDice
    \/ SelectDie(PoolHead)
    \/ handleStationClick
    \/ handleThreatClick
    \/ RecoverAll
    \/ FreeScanner
    \/ UseTactical
    \/ RechargeShields
    \/ UseScienceStasis
    \/ EndAssignPhase
    \/ AcknowledgeDraw
    \/ handleRollThreatDie
    \/ ContinueActivate
    \/ AcknowledgeGather

Spec == Init /\ [][Next]_vars

\* ------------------------------------------------- presets loaded in the store
\* The reducer tests put the store in a chosen state (a preset spread over a
\* playing state) and dispatch on it; __TEST_LOAD_STATE does the same.

\* A threat in play as a preset holds it: its id is none a draw hands out.
presetThreat(card, n, health, tokens) ==
    [createActiveThreat(card, n) EXCEPT !.health = health, !.stasisTokens = tokens]

\* Every die in the infirmary.
SickBay ==
    [i \in 1..6 |-> [id |-> i - 1, face |-> "medical", location |-> Loc("infirmary")]]

\* Die 0 in the pool showing face, the others in the infirmary.
LoneDie(face) ==
    [SickBay EXCEPT ![1] = [id |-> 0, face |-> face, location |-> Loc("pool")]]

preset ==
    [makeInitialState EXCEPT !.status = "playing", !.difficulty = "hard", !.log = 1,
                             !.turnNumber = 1]

\* The flagship is the last card of the deck and no threat is in play.
LastCard(hull, crew) ==
    [preset EXCEPT !.phase = "assigning", !.deck = <<"solar-winds-flagship">>,
                   !.hull = hull, !.shields = 0, !.crew = crew]

\* Pandemic and a Scout wait for the hazard face, the hull at its last point.
UnderFire(crew) ==
    [preset EXCEPT !.phase = "activating", !.deck = <<"ouroboros">>, !.hull = 1, !.shields = 0,
                   !.crew = crew,
                   !.activeThreats = <<presetThreat("pandemic", 101, 0, 0),
                                       presetThreat("scout", 102, 2, 0)>>]

\* The deck is empty and nothing is in play (the "won" test of the reducer).
Gathered(crew) ==
    [preset EXCEPT !.phase = "gathering", !.crew = crew]

\* A turn about to start against weakened Pirates, two cards left.
Rolling(crew) ==
    [preset EXCEPT !.phase = "rolling", !.deck = <<"scout", "ouroboros">>, !.crew = crew,
                   !.activeThreats = <<presetThreat("pirates", 103, 1, 0)>>]

\* The commander, medical and science stations are manned, one die is in
\* hand, one in the infirmary and one in the scanners.
StationsManned ==
    [i \in 1..6 |->
        [id |-> i - 1,
         face |-> <<"commander", "medical", "science", "tactical", "medical", "threat">>[i],
         location |-> Loc(<<"commander", "medical", "science", "pool", "infirmary",
                            "scanners">>[i])]]

\* The middle of the assigning phase of the last turn that is explored, the
\* shields down, Pirates in play.
Staffed ==
    [preset EXCEPT !.phase = "assigning", !.turnNumber = MaxTurn,
                   !.deck = <<"scout", "ouroboros">>, !.shields = 0,
                   !.crew = StationsManned,
                   !.activeThreats = <<presetThreat("pirates", 103, 1, 0)>>]

\* Die 0 in the pool, two dice in the scanners, the others in the infirmary.
TwoScanned ==
    [LoneDie("tactical") EXCEPT ![5] = [id |-> 4, face |-> "threat", location |-> Loc("scanners")],
                                ![6] = [id |-> 5, face |-> "threat", location |-> Loc("scanners")]]

\* The last turn that is explored starts with two dice in the scanners.
RollingLast == [Rolling(TwoScanned) EXCEPT !.turnNumber = MaxTurn]

\* The commander station is manned, one die is in hand and two are in the
\* scanners, in the last turn that is explored.
Scanning ==
    [Staffed EXCEPT !.crew =
        [i \in 1..6 |->
            [id |-> i - 1,
             face |-> <<"commander", "tactical", "threat", "threat", "medical", "medical">>[i],
             location |-> Loc(<<"commander", "pool", "scanners", "scanners", "infirmary",
                                "infirmary">>[i])]]]

\* Time Warp waits for the nova face in the last turn that is explored.
Warped(discard) ==
    [preset EXCEPT !.phase = "activating", !.turnNumber = MaxTurn, !.deck = <<"ouroboros">>,
                   !.discard = discard, !.crew = LoneDie("commander"),
                   !.activeThreats = <<presetThreat("time-warp", 104, 0, 0)>>]

\* The discard piles of Warped: none, one card, and more than three.
Discards == {<< >>, <<"scout">>, <<"solar-winds-flagship", "scout", "scout-2", "pirates">>}

\* The last turn that is explored, against Ouroboros, its barrier at its last
\* point or destroyed, the Orbital Cannon and a Nebula, one shield left.
BossFight(barrierDown) ==
    [preset EXCEPT !.phase = "assigning", !.turnNumber = MaxTurn, !.shields = 1,
                   !.crew = LoneDie("tactical"), !.nebulaActive = TRUE,
                   !.activeThreats =
                       <<[presetThreat("ouroboros-barrier", 105, IF barrierDown THEN 0 ELSE 1, 0)
                             EXCEPT !.isDestroyed = barrierDown],
                         presetThreat("ouroboros", 106, 8, 0),
                         presetThreat("orbital-cannon", 107, 6, 0),
                         presetThreat("nebula", 108, 0, 0)>>]

\* The first n dice at the tactical station, the others in the infirmary.
GunCrew(n) ==
    [i \in 1..6 |->
        [id |-> i - 1, face |-> IF i <= n THEN "tactical" ELSE "medical",
         location |-> Loc(IF i <= n THEN "tactical" ELSE "infirmary")]]

\* n dice are committed to the fire, in the last turn that is explored, at
\* weakened Pirates and a weakened Ouroboros, with or without Time Warp.
Broadside(n, warp) ==
    [preset EXCEPT !.phase = "assigning", !.turnNumber = MaxTurn,
                   !.crew = GunCrew(n), !.tacticalDice = {i - 1 : i \in 1..n},
                   !.activeThreats =
                       <<presetThreat("pirates", 109, 2, 0), presetThreat("ouroboros", 110, 3, 0)>>
                       \o (IF warp THEN <<presetThreat("time-warp", 111, 0, 0)>> ELSE << >>)]

\* The numbers of dice committed in Broadside.
MaxGuns == 3

\* Comms Offline waits for the lightning face in the last turn that is
\* explored, the Nebula on top of the deck.
Jammed ==
    [preset EXCEPT !.phase = "activating", !.turnNumber = MaxTurn,
                   !.deck = <<"nebula", "ouroboros">>, !.crew = LoneDie("commander"),
                   !.commsOfflineActive = TRUE,
                   !.activeThreats = <<presetThreat("comms-offline", 112, 0, 0)>>]

\* The shields are down under a Nebula and Comms Offline, in the last turn
\* that is explored: a science die in hand, the commander station manned.
Blocked ==
    [Staffed EXCEPT !.nebulaActive = TRUE, !.commsOfflineActive = TRUE,
                    !.crew = [SickBay EXCEPT
                                 ![1] = [id |-> 0, face |-> "science", location |-> Loc("pool")],
                                 ![2] = [id |-> 1, face |-> "commander",
                                         location |-> Loc("commander")]],
                    !.activeThreats = <<presetThreat("nebula", 113, 0, 0),
                                        presetThreat("comms-offline", 114, 0, 0)>>]

\* The assigning phase of the last turn that is explored, card on top of the
\* deck: the reducer tests of the reveal effects and of the filler draw.
TopCard(card, crew) ==
    [preset EXCEPT !.phase = "assigning", !.turnNumber = MaxTurn, !.shields = 2,
                   !.deck = <<card, "ouroboros">>, !.crew = crew]

\* The cards TopCard puts on top: a filler, a Distracted, a plain threat and
\* the flagship.
TopCards == {"dont-panic", "distracted", "pirates", "solar-winds-flagship"}

\* A Scout and Space Pirates were drawn before Pandemic and a Panel
\* Explosion: an external threat is listed before an internal one of the same
\* symbol, in the activating phase of the last turn that is explored.
Crossfire ==
    [preset EXCEPT !.phase = "activating", !.turnNumber = MaxTurn, !.deck = <<"ouroboros">>,
                   !.shields = 1, !.crew = LoneDie("commander"),
                   !.activeThreats = <<presetThreat("scout", 115, 2, 0),
                                       presetThreat("space-pirates", 116, 5, 0),
                                       presetThreat("pandemic", 117, 0, 0),
                                       presetThreat("panel-explosion", 118, 0, 0)>>]

LoadedStates ==
    {LastCard(h, c) : h \in {3, 8}, c \in {SickBay, LoneDie("commander"), LoneDie("engineering")}}
    \cup {Blocked}
    \cup {Crossfire}
    \cup {TopCard(c, crew) : c \in TopCards, crew \in {LoneDie("commander"), GunCrew(1)}}
    \cup {Jammed}
    \cup {Broadside(n, warp) : n \in 1..MaxGuns, warp \in BOOLEAN}
    \cup {UnderFire(LoneDie("commander")), Gathered(LoneDie("commander")),
          RollingLast, Staffed, Scanning}
    \cup {Warped(d) : d \in Discards}
    \cup {BossFight(b) : b \in BOOLEAN}

\* The rolls of the one pool die of a preset.
LoadRolls == {<<"tactical">>, <<"threat">>}

\* The Repair button is disabled at full hull.
Repair ==
    /\ state.hull < state.maxHull
    /\ UseEngineering

\* The threat die of a preset is rolled with all of its faces that matter.
LoadThreatRoll ==
    /\ state.threatDieFace = "none"
    /\ \/ StartThreatRoll
       \/ ThreatRollComplete({"hazard", "skull", "nova", "alien", "lightning"}, {<< >>})

NextLoad ==
    \/ TestLoadState(LoadedStates)
    \/ ClockTick
    \/ StartRoll
    \/ RollComplete(LoadRolls)
    \/ SelectDie({NoDie, 0})
    \/ AssignToStation({state.selectedDieId}, StationIds)
    \/ AssignToThreat({state.selectedDieId})
    \/ Repair
    \/ RecoverAll
    \/ FreeScanner
    \/ UseTactical
    \/ RechargeShields
    \/ UseScienceStasis
    \/ UseCommanderReroll({"engineering", "threat"})
    \/ UseCommanderChange({0}, {"medical", "tactical"})
    \/ EndAssignPhase
    \/ AcknowledgeDraw
    \/ LoadThreatRoll
    \/ ContinueActivate
    \/ AcknowledgeGather

SpecLoad == Init /\ [][NextLoad]_vars

\* ------------------------------------------------ a game played to its end
\* One line of play of the reducer from NEW_GAME: the deck in catalogue order,
\* every roll showing tactical (science while Time Warp is in play), every die
\* sent to the tactical station (to a science mission while Time Warp is in
\* play), one volley a turn at the first threat that can be targeted, and the
\* activating phase acknowledged with the threat die left alone.

MaxWinTurn == 32

\* Every pool die shows science while Time Warp is in play, else tactical.
WinFaces ==
    Uniform(IF isTimeWarpActive(state.activeThreats) THEN "science" ELSE "tactical", 6)

WinRoll ==
    \/ StartRoll
    \/ (state.log = 1 /\ RollComplete({WinFaces}))

\* The pool dice that have something to do.
Hands(face) ==
    {i \in DOMAIN state.crew :
        state.crew[i].location = Loc("pool") /\ state.crew[i].face = face}

PickUp ==
    /\ state.selectedDieId = NoDie
    /\ Hands("tactical") # {} \/ (Hands("science") # {} /\ isTimeWarpActive(state.activeThreats))
    /\ SelectDie(PoolHead)

ManTactical ==
    /\ selectedDie # 0
    /\ state.crew[selectedDie].face = "tactical"
    /\ AssignToStation({state.selectedDieId}, {"tactical"})

\* The science die in hand joins the mission on Time Warp.
ManMission ==
    /\ Legal(state, "assigning")
    /\ selectedDie # 0
    /\ state.crew[selectedDie].face = "science"
    /\ \E k \in DOMAIN state.activeThreats :
          /\ state.activeThreats[k].card = "time-warp"
          /\ Dispatch(reduceAssignToThreat(Now, state.selectedDieId, state.activeThreats[k].id))

\* The first threat in play that the tactical dice can fire at.
FirstTarget ==
    LET open == {k \in DOMAIN state.activeThreats :
                    canTargetThreat(state.activeThreats[k], state.activeThreats)}
    IN  IF open = {} THEN {}
        ELSE {state.activeThreats[CHOOSE k \in open : \A j \in open : k <= j].id}

Volley ==
    /\ Legal(state, "assigning")
    /\ Hands("tactical") = {}
    /\ state.tacticalDice # {}
    /\ \E t \in FirstTarget : Dispatch(reduceUseTactical(Now, t))

\* Nothing is left to do in the assigning phase.
TurnDone ==
    /\ state.selectedDieId = NoDie
    /\ Hands("tactical") = {}
    /\ state.tacticalDice = {} \/ FirstTarget = {}
    /\ Hands("science") = {} \/ ~isTimeWarpActive(state.activeThreats)

NextWin ==
    \/ NewGame({"hard"}, {<< >>})
    \/ AcknowledgeDraw
    \/ WinRoll
    \/ PickUp
    \/ ManTactical
    \/ ManMission
    \/ Volley
    \/ (TurnDone /\ EndAssignPhase)
    \/ AcknowledgeActivate
    \/ GatherUpTo(MaxWinTurn)

SpecWin == Init /\ [][NextWin]_vars

\* ------------------------------------------------------ the action alphabet

\* The ids a payload can name: those of the six dice, null and an id of no die.
DieIds == {NoDie} \cup 0..6

ActionTypes ==
    {"NEW_GAME", "__TEST_LOAD_STATE", "TICK", "START_ROLL", "ROLL_COMPLETE", "SELECT_DIE",
     "ASSIGN_TO_STATION", "ASSIGN_TO_THREAT", "USE_ENGINEERING", "USE_MEDICAL",
     "USE_MEDICAL_SCANNERS", "USE_TACTICAL", "USE_SCIENCE_SHIELDS", "USE_SCIENCE_STASIS",
     "USE_COMMANDER_REROLL", "USE_COMMANDER_CHANGE", "END_ASSIGN_PHASE", "ACKNOWLEDGE_DRAW",
     "START_THREAT_ROLL", "THREAT_ROLL_COMPLETE", "ACKNOWLEDGE_ACTIVATE", "ACKNOWLEDGE_GATHER"}

\* The phase whose guard the case of an action type carries; TICK has none.
DesignedPhase(type) ==
    CASE type \in {"START_ROLL", "ROLL_COMPLETE"} -> "rolling"
      [] type \in {"SELECT_DIE", "ASSIGN_TO_STATION", "ASSIGN_TO_THREAT", "USE_ENGINEERING",
                   "USE_MEDICAL", "USE_MEDICAL_SCANNERS", "USE_TACTICAL", "USE_SCIENCE_SHIELDS",
                   "USE_SCIENCE_STASIS", "USE_COMMANDER_REROLL", "USE_COMMANDER_CHANGE",
                   "END_ASSIGN_PHASE"} -> "assigning"
      [] type = "ACKNOWLEDGE_DRAW" -> "drawing"
      [] type \in {"START_THREAT_ROLL", "THREAT_ROLL_COMPLETE", "ACKNOWLEDGE_ACTIVATE"} ->
           "activating"
      [] type = "ACKNOWLEDGE_GATHER" -> "gathering"
      [] OTHER -> "any"

\* The actions, other than NEW_GAME and __TEST_LOAD_STATE, that are dispatched
\* on the current state to look at the reducer's answer: every action type
\* with every payload over the dice, stations, faces and threats in play, and
\* one action of a type the reducer does not know.
Inputs ==
    {[type |-> t] : t \in {"TICK", "START_ROLL", "USE_ENGINEERING", "USE_MEDICAL",
                           "USE_MEDICAL_SCANNERS", "USE_SCIENCE_SHIELDS", "END_ASSIGN_PHASE",
                           "ACKNOWLEDGE_DRAW", "START_THREAT_ROLL", "ACKNOWLEDGE_ACTIVATE",
                           "ACKNOWLEDGE_GATHER", "@@INIT"}}
    \cup {[type |-> "ROLL_COMPLETE", faces |-> f] : f \in Rolls \cup {<< >>}}
    \cup {[type |-> "SELECT_DIE", dieId |-> d] : d \in DieIds}
    \cup {[type |-> "ASSIGN_TO_STATION", dieId |-> d, stationId |-> st] :
             d \in DieIds, st \in StationIds}
    \cup {[type |-> "ASSIGN_TO_THREAT", dieId |-> d, threatId |-> t] :
             d \in DieIds, t \in ThreatIds}
    \cup {[type |-> "USE_TACTICAL", targetThreatId |-> t] : t \in ThreatIds}
    \cup {[type |-> "USE_SCIENCE_STASIS", targetThreatId |-> t] : t \in ThreatIds}
    \cup {[type |-> "USE_COMMANDER_REROLL", newFaces |-> Uniform(f, PoolCount)] :
             f \in {"tactical", "threat"}}
    \cup {[type |-> "USE_COMMANDER_CHANGE", targetDieId |-> d, newFace |-> f] :
             d \in DieIds, f \in CrewFaces}
    \cup {[type |-> "THREAT_ROLL_COMPLETE", face |-> f, front |-> << >>] :
             f \in ThreatSymbols}

\* The state the reducer returns for action a on the current state.
After(a) == gameReducer(Now, a).s

\* ------------------------------------------------------------------ claims

\* a is illegal in the current state: the game is not being played, or the
\* phase is not the one of a's type, or the reducer does not know a's type.
Illegal(a) ==
    \/ a.type \notin ActionTypes
    \/ state.status # "playing"
    \/ (a.type # "TICK" /\ state.phase # DesignedPhase(a.type))

\* C1: an action other than NEW_GAME and __TEST_LOAD_STATE that is dispatched
\* while the status is not "playing", or in a phase other than the one of its
\* type, or whose type is unknown, leaves every field of the state (and the
\* threat instance counter) as it was.
C1_IllegalActionIsNoOp ==
    \A a \in Inputs : Illegal(a) => gameReducer(Now, a) = Now

\* C1 witness: a lost game stands in the activating phase with threats in
\* play, where a threat roll would act if the game were still played.
C1_Witness ==
    /\ state.status = "lost"
    /\ state.phase = "activating"
    /\ state.activeThreats # << >>
    /\ \E a \in Inputs : a.type = "THREAT_ROLL_COMPLETE" /\ Illegal(a)

\* The crew loss condition and the win condition of the current state.
CrewLost == checkCrewLoss(state.crew)

WinReached == checkWin(state.deck, state.activeThreats)

\* C2: in every state of a game started by NEW_GAME whose status is "playing"
\* the hull is above 0, some crew die is neither in the infirmary, nor in the
\* scanners, nor on a threat, and the win condition does not hold.
C2_PlayingMeansUndecided ==
    state.status = "playing" => state.hull > 0 /\ ~CrewLost /\ ~WinReached


\* C3: whenever an action ends a played game, the resulting status follows the
\* priority of the evaluation: a hull at 0 gives "lost" with reason "hull" even
\* if the crew is lost or the win condition holds; otherwise a lost crew gives
\* "lost" with reason "crew" even if the win condition holds; "won" is given
\* only when neither loss condition holds.
C3_WinLossPriority ==
    \A a \in Inputs :
        LET r == After(a) IN
        (state.status = "playing" /\ r.status # "playing") =>
            /\ r.hull <= 0 => r.status = "lost" /\ r.lossReason = "hull"
            /\ (r.hull > 0 /\ checkCrewLoss(r.crew)) =>
                   r.status = "lost" /\ r.lossReason = "crew"
            /\ r.status = "won" => r.hull > 0 /\ ~checkCrewLoss(r.crew)

\* C3 witness: a game was lost on the hull in a state where the crew is lost
\* and the win condition holds too.
C3_Witness ==
    /\ state.status = "lost"
    /\ state.lossReason = "hull"
    /\ state.hull <= 0
    /\ CrewLost
    /\ WinReached

\* C4: once the status is "won" or "lost", no action other than NEW_GAME and
\* __TEST_LOAD_STATE changes any field of the state, so the status and the
\* loss reason stay as they are.
C4_TerminalIsAbsorbing ==
    state.status \in {"won", "lost"} => \A a \in Inputs : gameReducer(Now, a) = Now

\* C4 witness: a won game stands in the drawing phase, where an
\* acknowledgement would move a played game on.
C4_Witness ==
    /\ state.status = "won"
    /\ state.phase = "drawing"
    /\ [type |-> "ACKNOWLEDGE_DRAW"] \in Inputs

\* The phase changes of a turn and of the setup, with the action of each.
PhaseSteps ==
    {<<"rolling", "ROLL_COMPLETE", "assigning">>,
     <<"assigning", "END_ASSIGN_PHASE", "drawing">>,
     <<"drawing", "ACKNOWLEDGE_DRAW", "activating">>,
     <<"drawing", "ACKNOWLEDGE_DRAW", "rolling">>,
     <<"activating", "ACKNOWLEDGE_ACTIVATE", "gathering">>,
     <<"gathering", "ACKNOWLEDGE_GATHER", "rolling">>}

\* C5: an action other than NEW_GAME and __TEST_LOAD_STATE changes the phase
\* only along rolling -> assigning (ROLL_COMPLETE), assigning -> drawing
\* (END_ASSIGN_PHASE), drawing -> activating (ACKNOWLEDGE_DRAW),
\* activating -> gathering (ACKNOWLEDGE_ACTIVATE) and gathering -> rolling
\* (ACKNOWLEDGE_GATHER); drawing -> rolling is taken only by the
\* ACKNOWLEDGE_DRAW that ends the setup, and an ACKNOWLEDGE_DRAW stays in
\* drawing only for the second card of the setup.
C5_PhaseOrder ==
    \A a \in Inputs :
        LET r == After(a) IN
        /\ r.phase # state.phase => <<state.phase, a.type, r.phase>> \in PhaseSteps
        /\ (state.phase = "drawing" /\ r.phase = "rolling") => state.setupDrawsRemaining = 1
        /\ (state.phase = "drawing" /\ r.phase = "activating") => state.setupDrawsRemaining = 0
        /\ (a.type = "ACKNOWLEDGE_DRAW" /\ Legal(state, "drawing") /\ r.phase = "drawing") =>
               state.setupDrawsRemaining = 2 /\ state.turnNumber = 1

\* C5 witness: the second turn has gone through rolling, assigning and drawing
\* and stands in the activating phase.
C5_Witness ==
    /\ state.status = "playing"
    /\ state.turnNumber = 2
    /\ state.phase = "activating"


\* The state NEW_GAME returns for a difficulty and an outcome of the shuffle.
NewGameState(d, front) == startNewGame(Now, d, front).s

\* The state ACKNOWLEDGE_DRAW returns.
Acknowledged == After([type |-> "ACKNOWLEDGE_DRAW"])

\* The number of cards buildDeck puts in the deck of a difficulty.
DeckSize(d) == Len(buildDeck(d, << >>))

ActiveCards == [k \in DOMAIN state.activeThreats |-> state.activeThreats[k].card]

\* How often card c occurs in the sequence cards.
Count(c, cards) == Cardinality({k \in DOMAIN cards : cards[k] = c})

\* Ouroboros has been drawn: it is in play or in the discard pile.
OuroborosDrawn ==
    Count("ouroboros", ActiveCards) + Count("ouroboros", state.discard) > 0

\* No external, boss or boss-barrier threat of threats is left undestroyed.
NoThreatStanding(threats) ==
    \A k \in DOMAIN threats :
        \/ threats[k].isDestroyed
        \/ /\ Card(threats[k].card).kind \notin {"external", "boss-barrier"}
           /\ ~Card(threats[k].card).isOuroboros

\* C7: an action makes the status "won" only if the state it returns has an
\* empty deck and no undestroyed external, boss or boss-barrier threat in
\* play; and in every won state of a game started by NEW_GAME the Ouroboros
\* card is in the discard pile.
C7_WonOnlyWhenWinHolds ==
    /\ \A a \in Inputs :
          LET r == After(a) IN
          (state.status # "won" /\ r.status = "won") =>
              r.deck = << >> /\ NoThreatStanding(r.activeThreats)
    /\ state.status = "won" =>
          /\ state.deck = << >>
          /\ NoThreatStanding(state.activeThreats)
          /\ Count("ouroboros", state.discard) > 0

\* C7 witness: a game started by NEW_GAME has been won after the whole deck
\* was drawn, Ouroboros among the discarded cards.
C7_Witness ==
    /\ state.status = "won"
    /\ state.turnNumber > 1
    /\ state.deck = << >>
    /\ Count("ouroboros", state.discard) > 0

\* C8: in every state of a started game in which Ouroboros has not been drawn,
\* Ouroboros is the last card of the deck and occurs nowhere else in it.
C8_OuroborosIsLast ==
    (state.status # "idle" /\ ~OuroborosDrawn) =>
        /\ state.deck # << >>
        /\ state.deck[Len(state.deck)] = "ouroboros"
        /\ Count("ouroboros", state.deck) = 1

\* The cards of the catalogue.
CardIds == Range(buildDeck("easy", << >>))

\* C9: in every state of a game started by NEW_GAME(d), the deck, the threats
\* in play and the discard pile hold together exactly the cards of the deck
\* built for d, each as often as it was built.
C9_CardConservation ==
    state.status # "idle" =>
        \A c \in CardIds :
            Count(c, state.deck) + Count(c, ActiveCards) + Count(c, state.discard)
                = Count(c, buildDeck(state.difficulty, << >>))

\* The threats in play that a roll of face activates (threats.ts 150-153).
Rolled(face) ==
    {k \in DOMAIN state.activeThreats :
        /\ Card(state.activeThreats[k].card).kind # "filler"
        /\ Card(state.activeThreats[k].card).activation = face
        /\ ~(state.activeThreats[k].isDestroyed /\ ~Card(state.activeThreats[k].card).isBarrier)}

\* C10: when THREAT_ROLL_COMPLETE rolls a face and every threat of that face
\* carries a stasis token, each of them loses one token and nothing else
\* happens: hull, shields, crew, the other threats, the deck (no extra draw, no
\* reshuffle) and the discard pile are as before, and no barrier regenerates.
C10_StasisSuppresses ==
    \A face \in ThreatSymbols :
        LET r == After([type |-> "THREAT_ROLL_COMPLETE", face |-> face, front |-> << >>]) IN
        (/\ Legal(state, "activating")
         /\ Rolled(face) # {}
         /\ \A k \in Rolled(face) : state.activeThreats[k].stasisTokens >= 1) =>
            /\ r.hull = state.hull
            /\ r.shields = state.shields
            /\ r.crew = state.crew
            /\ r.deck = state.deck
            /\ r.discard = state.discard
            /\ r.activeThreats =
                  [k \in DOMAIN state.activeThreats |->
                      IF k \in Rolled(face)
                      THEN [state.activeThreats[k] EXCEPT !.stasisTokens = @ - 1]
                      ELSE state.activeThreats[k]]


\* The die of crew with id dieId, or none.
DieWith(dieId) == {i \in DOMAIN state.crew : state.crew[i].id = dieId}

\* C11: ASSIGN_TO_STATION changes the state only when the die exists and
\* canAssignToStation holds of it: it is in the pool, its face is the face of
\* the station, the station is one of the five assignable ones and, for the
\* commander station, commsOfflineActive is false.
C11_StationEligibility ==
    \A d \in DieIds, st \in StationIds :
        (\A i \in DieWith(d) :
            ~canAssignToStation(state.crew[i], st, state.commsOfflineActive)) =>
        After([type |-> "ASSIGN_TO_STATION", dieId |-> d, stationId |-> st]) = state


\* The ids of the dice and of the threats in play.
KnownDice == {state.crew[i].id : i \in DOMAIN state.crew}

KnownThreats == {state.activeThreats[k].id : k \in DOMAIN state.activeThreats}

\* The actions of Inputs that name a die or a threat the state does not hold.
NamesUnknown(a) ==
    \/ a.type \in {"ASSIGN_TO_STATION", "ASSIGN_TO_THREAT"} /\ a.dieId \notin KnownDice
    \/ a.type = "ASSIGN_TO_THREAT" /\ a.threatId \notin KnownThreats
    \/ a.type \in {"USE_TACTICAL", "USE_SCIENCE_STASIS"} /\ a.targetThreatId \notin KnownThreats
    \/ a.type = "USE_COMMANDER_CHANGE" /\ a.targetDieId \notin KnownDice

\* C12: ASSIGN_TO_STATION, ASSIGN_TO_THREAT, USE_TACTICAL, USE_SCIENCE_STASIS
\* and USE_COMMANDER_CHANGE return the state unchanged when they name a die id
\* or a threat id the state does not hold: no log entry, no budget consumed.
C12_UnknownIdIsNoOp ==
    \A a \in Inputs : NamesUnknown(a) => After(a) = state


\* The budget an action type draws on, or "none".
BudgetOf(type) ==
    CASE type = "USE_MEDICAL" -> "USE_MEDICAL"
      [] type \in {"USE_SCIENCE_SHIELDS", "USE_SCIENCE_STASIS"} -> "USE_SCIENCE"
      [] type \in {"USE_COMMANDER_REROLL", "USE_COMMANDER_CHANGE"} -> "USE_COMMANDER"
      [] OTHER -> "none"

\* s and r differ in more than the log.
TakesEffect(s, r) == [r EXCEPT !.log = s.log] # s

\* C13: a use of Medical, of Science (shields or stasis) or of the Commander
\* (re-roll or change) that takes effect marks its budget in
\* usedStationActions, which was not marked before; while a budget is marked,
\* every action drawing on it returns the identical state; no action but
\* ACKNOWLEDGE_GATHER unmarks a budget, and ACKNOWLEDGE_GATHER unmarks all.
C13_OncePerTurn ==
    \A a \in Inputs :
        LET r == After(a)
            b == BudgetOf(a.type)
        IN  /\ (b # "none" /\ b \in state.usedStationActions) => r = state
            /\ (b # "none" /\ TakesEffect(state, r)) =>
                   b \notin state.usedStationActions /\ b \in r.usedStationActions
            /\ a.type # "ACKNOWLEDGE_GATHER" => state.usedStationActions \subseteq r.usedStationActions
            /\ (a.type = "ACKNOWLEDGE_GATHER" /\ Legal(state, "gathering")) =>
                   r.usedStationActions = {}

\* C13 witness: in one assigning phase Medical, Science and the Commander have
\* each been used.
C13_Witness ==
    /\ Legal(state, "assigning")
    /\ state.usedStationActions = {"USE_MEDICAL", "USE_SCIENCE", "USE_COMMANDER"}


RECURSIVE Repeat(_, _, _)
\* The world after n dispatches of action a in a row from world w.
Repeat(w, a, n) == IF n = 0 THEN w ELSE Repeat(gameReducer(w, a), a, n - 1)

\* The number of dice of crew at a place.
DiceAt(crew, place) == Cardinality({i \in DOMAIN crew : crew[i].location = Loc(place)})

\* C14: in an assigning phase, however often USE_MEDICAL_SCANNERS is
\* dispatched, the dice it moves from the scanners to the pool are at most as
\* many as the dice at the medical station; and each USE_MEDICAL_SCANNERS that
\* takes effect moves exactly one die from the scanners to the pool.
C14_OneReleasePerMedicalDie ==
    Legal(state, "assigning") =>
        /\ \A n \in 1..6 :
              DiceAt(state.crew, "scanners")
                  - DiceAt(Repeat(Now, [type |-> "USE_MEDICAL_SCANNERS"], n).s.crew, "scanners")
              <= countAtStation(state.crew, "medical")
        /\ LET r == After([type |-> "USE_MEDICAL_SCANNERS"]) IN
           TakesEffect(state, r) =>
              /\ DiceAt(r.crew, "scanners") = DiceAt(state.crew, "scanners") - 1
              /\ DiceAt(r.crew, "pool") = DiceAt(state.crew, "pool") + 1


\* C15: the hull never exceeds maxHull, and in an assigning phase, however
\* often USE_ENGINEERING is dispatched, the hull it restores is at most the
\* number of dice at the engineering station.
C15_OneHullPerEngineeringDie ==
    /\ state.hull <= state.maxHull
    /\ Legal(state, "assigning") =>
          \A n \in 1..3 :
             Repeat(Now, [type |-> "USE_ENGINEERING"], n).s.hull - state.hull
                 <= countAtStation(state.crew, "engineering")


\* The fields an activation pass can change.
Board(s) == <<s.hull, s.shields, s.crew, s.activeThreats, s.deck, s.discard>>

\* C16: in an activating phase a second THREAT_ROLL_COMPLETE does not
\* activate the threats again, and ACKNOWLEDGE_ACTIVATE does not leave the
\* phase while no threat die has been rolled.
C16_OneThreatRollPerTurn ==
    Legal(state, "activating") =>
        /\ \A f1, f2 \in ThreatSymbols :
              LET roll(f) == [type |-> "THREAT_ROLL_COMPLETE", face |-> f, front |-> << >>]
                  r1 == gameReducer(Now, roll(f1))
                  r2 == gameReducer(r1, roll(f2))
              IN  Board(r2.s) = Board(r1.s)
        /\ state.threatDieFace = "none" =>
              After([type |-> "ACKNOWLEDGE_ACTIVATE"]).phase = "activating"


\* The crew rolls C17 looks ahead over: n threat faces, then tactical ones.
ScannerRolls == {Uniform("threat", n) \o Uniform("tactical", 6 - n) : n \in 0..6}

\* The pool dice of s that the faces of a roll turn into threat faces.
NewThreatDice(s, faces) ==
    {i \in DOMAIN s.crew : /\ s.crew[i].location = Loc("pool")
                           /\ PoolIndex(s.crew, i) <= Len(faces)
                           /\ faces[PoolIndex(s.crew, i)] = "threat"}

\* With k dice in the scanners after the locking, k mod 3 stay there and
\* floor(k/3) cards leave the deck, or all of them if it holds fewer.
ScannerBatch(s, r, k) ==
    /\ DiceAt(r.crew, "scanners") = k % 3
    /\ Len(r.deck) = Len(s.deck) - Min(k \div 3, Len(s.deck))

C18_ScannerDiceStayLocked ==
    /\ (Legal(state, "rolling") /\ DiceAt(state.crew, "scanners") = 0) =>
          \A faces \in ScannerRolls :
              Cardinality(NewThreatDice(state, faces)) = 3 =>
                  \A i \in NewThreatDice(state, faces) :
                      After([type |-> "ROLL_COMPLETE", faces |-> faces]).crew[i].location
                          = Loc("scanners")
    /\ \A a \in Inputs :
          a.type \notin {"USE_MEDICAL_SCANNERS", "NEW_GAME", "__TEST_LOAD_STATE"} =>
              \A i \in DOMAIN state.crew :
                  state.crew[i].location = Loc("scanners") =>
                      After(a).crew[i].location = Loc("scanners")


\* Time Warp is in play in s, not destroyed and without a stasis token: the
\* face of its card activates it.
TimeWarpFires(s) ==
    \E k \in DOMAIN s.activeThreats :
        /\ s.activeThreats[k].card = "time-warp"
        /\ ~s.activeThreats[k].isDestroyed
        /\ s.activeThreats[k].stasisTokens = 0

\* The state after the threat die shows the face of Time Warp.
AfterTimeWarpRoll ==
    After([type |-> "THREAT_ROLL_COMPLETE", face |-> Card("time-warp").activation,
           front |-> << >>])

\* C19 as stated: when the activation of Time Warp fires, the deck grows by 3
\* if the discard pile holds at least 3 cards and keeps its length otherwise.
C19_ReshuffleOnlyThree ==
    (Legal(state, "activating") /\ TimeWarpFires(state)) =>
        Len(AfterTimeWarpRoll.deck)
            = Len(state.deck) + (IF Len(state.discard) >= 3 THEN 3 ELSE 0)

\* C19 amended: when the activation of Time Warp fires, the deck gains the
\* most recently discarded cards, 3 of them or all if the discard pile holds
\* fewer, and nothing else.
C19_ReshuffleUpToThree ==
    (Legal(state, "activating") /\ TimeWarpFires(state)) =>
        LET n == Min(3, Len(state.discard))
            recent == SubSeq(state.discard, Len(state.discard) - n + 1, Len(state.discard))
        IN  /\ Len(AfterTimeWarpRoll.deck) = Len(state.deck) + n
            /\ \A c \in CardIds :
                  Count(c, AfterTimeWarpRoll.deck) = Count(c, state.deck) + Count(c, recent)

\* The activation of Time Warp has put a discarded card back into the deck.
C19_Witness ==
    /\ Legal(state, "activating") /\ TimeWarpFires(state)
    /\ state.threatDieFace = Card("time-warp").activation
    /\ \E c \in CardIds : Count(c, state.deck) > 0 /\ Count(c, state.discard) > 0


\* A non-destroyed boss-barrier is in play in s.
BarrierUp(s) ==
    \E k \in DOMAIN s.activeThreats :
        Card(s.activeThreats[k].card).isBarrier /\ ~s.activeThreats[k].isDestroyed

\* The threat at position k of s may be fired at, in the words of the rules.
Targetable(s, k) ==
    LET t == s.activeThreats[k]
        others == {j \in DOMAIN s.activeThreats :
                     /\ j # k
                     /\ Card(s.activeThreats[j].card).kind \in {"external", "boss-barrier"}
                     /\ ~s.activeThreats[j].isDestroyed}
    IN  /\ Card(t.card).kind \in {"external", "boss-barrier"}
        /\ ~t.isDestroyed
        /\ t.card = "orbital-cannon" => others = {}
        /\ Card(t.card).isOuroboros => ~BarrierUp(s)

\* C20: USE_TACTICAL changes the state only if its target is in play and may
\* be fired at; no action lowers the health of Ouroboros while a non-destroyed
\* barrier is in play, and none changes the health of an internal threat.
C20_TargetingLegality ==
    \A a \in Inputs :
        LET r == After(a) IN
        /\ (a.type = "USE_TACTICAL" /\ r # state) =>
              \E k \in DOMAIN state.activeThreats :
                  state.activeThreats[k].id = a.targetThreatId /\ Targetable(state, k)
        /\ \A k \in DOMAIN state.activeThreats, j \in DOMAIN r.activeThreats :
              LET t == state.activeThreats[k]
                  u == r.activeThreats[j]
              IN  t.id = u.id =>
                     /\ (Card(t.card).isOuroboros /\ BarrierUp(state)) => u.health >= t.health
                     /\ Card(t.card).kind = "internal" => u.health = t.health

\* Tactical dice are ready to fire while Ouroboros stands behind its barrier.
C20_Witness ==
    /\ Legal(state, "assigning") /\ state.tacticalDice # {}
    /\ BarrierUp(state)
    /\ \E k \in DOMAIN state.activeThreats : state.activeThreats[k].card = "ouroboros"


\* A non-destroyed Time Warp is in play in s.
TimeWarpUp(s) ==
    \E k \in DOMAIN s.activeThreats :
        s.activeThreats[k].card = "time-warp" /\ ~s.activeThreats[k].isDestroyed

BarrierOnly(s) ==
    [s EXCEPT !.activeThreats = SelectSeq(@, LAMBDA t : Card(t.card).isBarrier)]

\* The damage the ship has taken from s to r, shields and hull together.
DamageTaken(s, r) == (s.shields - r.shields) + (s.hull - r.hull)

IdsOf(crew) == [i \in DOMAIN crew |-> crew[i].id]

\* C23: the crew is always 6 dice with the ids 0..5, each in one place (the
\* pool, a station, the infirmary, the scanners or a threat's mission), and
\* no action adds, removes, duplicates or renumbers a die.
C23_CrewInvariant ==
    /\ Len(state.crew) = 6
    /\ {state.crew[i].id : i \in DOMAIN state.crew} = 0..5
    /\ \A i \in DOMAIN state.crew :
          state.crew[i].location.at \in StationIds \cup {"pool", "threat"}
    /\ \A a \in Inputs : IdsOf(After(a).crew) = IdsOf(state.crew)

\* In turn 2 the six dice are spread over the scanners, a station, the pool
\* and the infirmary or a mission.
C23_Witness ==
    /\ state.status = "playing" /\ state.turnNumber = 2
    /\ DiceAt(state.crew, "scanners") >= 1
    /\ DiceAt(state.crew, "pool") >= 1
    /\ \E i \in DOMAIN state.crew : state.crew[i].location.at \in {"infirmary", "threat"}
    /\ \E i \in DOMAIN state.crew :
          state.crew[i].location.at \in {"commander", "tactical", "engineering", "medical", "science"}


\* C24: every threat in play has 0 <= health <= maxHealth of its card and no
\* negative number of stasis tokens, and only a boss-barrier is in play
\* destroyed; an action that brings a non-barrier threat from a positive
\* health to 0 takes it out of play and adds its card to the discard pile.
C24_ThreatInvariant ==
    /\ \A k \in DOMAIN state.activeThreats :
          LET t == state.activeThreats[k] IN
          /\ 0 <= t.health /\ t.health <= Card(t.card).maxHealth
          /\ t.stasisTokens >= 0
          /\ t.isDestroyed => Card(t.card).isBarrier
          /\ (Card(t.card).maxHealth > 0 /\ ~Card(t.card).isBarrier) => t.health > 0
    /\ \A a \in Inputs :
          LET r == After(a) IN
          \A k \in DOMAIN state.activeThreats :
              LET t == state.activeThreats[k]
                  left == {j \in DOMAIN r.activeThreats : r.activeThreats[j].id = t.id}
              IN  (t.health > 0 /\ ~Card(t.card).isBarrier) =>
                      \/ \E j \in left : r.activeThreats[j].health > 0
                      \/ /\ left = {}
                         /\ r.discard = Append(state.discard, t.card)

\* Tactical fire has destroyed external threats: their cards are in the
\* discard pile, and the destroyed barrier is still in play.
C24_Witness ==
    /\ state.status = "playing"
    /\ \E k \in DOMAIN state.discard :
          Card(state.discard[k]).kind = "external" /\ Card(state.discard[k]).maxHealth > 1
    /\ \E k \in DOMAIN state.activeThreats :
          Card(state.activeThreats[k].card).isBarrier /\ state.activeThreats[k].isDestroyed


\* The largest hull damage and the largest shield damage tried on applyDamage.
MaxDamage == 6

\* C25: the hull stays within 0..maxHull and the shields within
\* 0..maxShields, and applyDamage returns no negative hull and no negative
\* shields, whatever damage is dealt to the ship as it is.
C25_HullAndShieldsInRange ==
    /\ 0 <= state.hull /\ state.hull <= state.maxHull
    /\ 0 <= state.shields /\ state.shields <= state.maxShields
    /\ \A hullDmg, shieldDmg \in 0..MaxDamage :
          LET dmg == applyDamage(state.hull, state.shields, hullDmg, shieldDmg)
          IN  dmg.hull >= 0 /\ dmg.shields >= 0

\* The flagship's 5 points of damage have met a ship with less left: the hull
\* is at 0, not below.
C25_Witness ==
    /\ state.status = "lost" /\ state.hull = 0 /\ state.shields = 0
    /\ Count("solar-winds-flagship", state.discard) > 0


\* What applyDamage takes from the ship as it is, shields and hull together.
Loss(hullDmg, shieldDmg) ==
    LET dmg == applyDamage(state.hull, state.shields, hullDmg, shieldDmg)
    IN  (state.shields - dmg.shields) + (state.hull - dmg.hull)

\* C26 as stated: what the shields absorb plus what the hull takes is the
\* damage dealt, for all damage.
C26_DamageConserved ==
    \A hullDmg, shieldDmg \in 0..MaxDamage : Loss(hullDmg, shieldDmg) = hullDmg + shieldDmg

\* C26 amended: what the shields absorb plus what the hull takes is the damage
\* dealt as long as the ship has that much left, and all that is left of
\* shields and hull otherwise.
C26_DamageConservedUpToFloor ==
    \A hullDmg, shieldDmg \in 0..MaxDamage :
        Loss(hullDmg, shieldDmg) = Min(hullDmg + shieldDmg, state.hull + state.shields)

\* A Scout's shield damage has gone through to the last point of the hull.
C26_Witness ==
    /\ state.status = "lost" /\ state.hull = 0 /\ state.threatDieFace = "hazard"
    /\ \E k \in DOMAIN state.activeThreats : state.activeThreats[k].card = "scout"


\* The outcomes of the shuffle loop of the Time Warp block that are compared:
\* the order kept, and each card in turn moved to the top.
TimeWarpFronts ==
    {<< >>} \cup {<<n>> : n \in 1..(Len(state.deck) + Len(lastThree(state.discard)))}

\* C27: the state the reducer returns is a function of the state and of the
\* action as dispatched ({ type: 'USE_COMMANDER_REROLL' }, { type:
\* 'THREAT_ROLL_COMPLETE', face }): whatever Math.random yields inside the
\* reducer, two applications give the same state.
C27_Determinism ==
    /\ \A f1, f2 \in CrewFaces :
          After([type |-> "USE_COMMANDER_REROLL", newFaces |-> Uniform(f1, PoolCount)])
              = After([type |-> "USE_COMMANDER_REROLL", newFaces |-> Uniform(f2, PoolCount)])
    /\ \A face \in ThreatSymbols, front1, front2 \in TimeWarpFronts :
          After([type |-> "THREAT_ROLL_COMPLETE", face |-> face, front |-> front1])
              = After([type |-> "THREAT_ROLL_COMPLETE", face |-> face, front |-> front2])


\* A non-destroyed threat with the given card is in play in s.
InPlay(s, card) ==
    \E k \in DOMAIN s.activeThreats :
        s.activeThreats[k].card = card /\ ~s.activeThreats[k].isDestroyed

\* C28: nebulaActive is true iff a non-destroyed Nebula is in play and
\* commsOfflineActive is true iff a non-destroyed Comms Offline is in play,
\* in every state, so that the flags rise and fall in the very transition in
\* which the card enters or leaves play.
C28_FlagsTrackBoard ==
    /\ state.nebulaActive = InPlay(state, "nebula")
    /\ state.commsOfflineActive = InPlay(state, "comms-offline")


\* C29: while a non-destroyed Nebula is in play USE_SCIENCE_SHIELDS leaves the
\* shields and the Science budget as they are; the shields grow only by a
\* USE_SCIENCE_SHIELDS without Nebula, which sets them to maxShields; while a
\* non-destroyed Comms Offline is in play USE_COMMANDER_REROLL and
\* USE_COMMANDER_CHANGE return the state unchanged.
C29_PassiveBlocking ==
    \A a \in Inputs :
        LET r == After(a) IN
        /\ (a.type = "USE_SCIENCE_SHIELDS" /\ InPlay(state, "nebula")) =>
              /\ r.shields = state.shields
              /\ r.usedStationActions = state.usedStationActions
        /\ r.shields > state.shields =>
              /\ a.type = "USE_SCIENCE_SHIELDS" /\ ~InPlay(state, "nebula")
              /\ r.shields = state.maxShields
        /\ (a.type \in {"USE_COMMANDER_REROLL", "USE_COMMANDER_CHANGE"}
               /\ InPlay(state, "comms-offline")) => r = state

\* The science and commander stations are manned with their budgets unused
\* and the shields down, under a Nebula and Comms Offline.
C29_Witness ==
    /\ Legal(state, "assigning")
    /\ InPlay(state, "nebula") /\ InPlay(state, "comms-offline")
    /\ countAtStation(state.crew, "science") > 0 /\ countAtStation(state.crew, "commander") > 0
    /\ state.usedStationActions = {} /\ state.shields < state.maxShields


\* ------------------------------------------------------------------- C30
\* The outcomes of the deck shuffle that are checked: the order kept, those
\* NEW_GAME explores, and the Ouroboros Barrier (the last core card) on top.
DeckFronts == Fronts \cup {<< >>, <<Len(CORE_CARDS), 1>>}

\* deck is a deck of difficulty d: Ouroboros last and nowhere else, before it
\* every core card as often as CORE_CARDS holds it and the fillers of d.
IsDeckOf(deck, d) ==
    LET n == Len(deck)
        mainDeck == SubSeq(deck, 1, n - 1)
    IN  /\ n = Len(CORE_CARDS) + DONT_PANIC_COUNTS(d) + 1
        /\ deck[n] = "ouroboros"
        /\ Count("ouroboros", deck) = 1
        /\ \A c \in Range(CORE_CARDS) : Count(c, mainDeck) = Count(c, CORE_CARDS)
        /\ Count("ouroboros-barrier", mainDeck) = 1
        /\ Count("dont-panic", mainDeck) = DONT_PANIC_COUNTS(d)

Drawn == drawAndProcessCard(Now).s

\* The dice of crew that are at place.
CrewAt(crew, place) == {i \in DOMAIN crew : crew[i].location = place}

\* r is s but for its log and the fields of the record changed.
SameBut(s, r, changed) ==
    [r EXCEPT !.log = 0] = [f \in DOMAIN s |->
                               IF f = "log" THEN 0
                               ELSE IF f \in DOMAIN changed THEN changed[f] ELSE s[f]]

DistractedUp(s) ==
    {k \in DOMAIN s.activeThreats :
        /\ s.activeThreats[k].card \in {"distracted", "distracted-2", "distracted-3"}
        /\ s.activeThreats[k].stasisTokens = 0}

\* C32: when a Distracted threat without stasis token activates (the threat
\* die shows nova in the activating phase), every die attached to it returns
\* to the pool, the threat leaves activeThreats, and its card is added to the
\* discard pile.
C32_DistractedActivation ==
    LET r == After([type |-> "THREAT_ROLL_COMPLETE", face |-> "nova", front |-> << >>]) IN
    Legal(state, "activating") =>
        \A k \in DistractedUp(state) :
            LET t == state.activeThreats[k] IN
            /\ \A i \in CrewAt(state.crew, ThreatLoc(t.id)) : r.crew[i].location = Loc("pool")
            /\ \A j \in DOMAIN r.activeThreats : r.activeThreats[j].id # t.id
            /\ Count(t.card, r.discard) = Count(t.card, state.discard) + 1


\* ------------------------------------------------------------------- C33
\* The threats in play with id threatId.
ThreatsWith(threatId) ==
    {k \in DOMAIN state.activeThreats : state.activeThreats[k].id = threatId}

\* canAssignToThreat holds of the die and the threat an action names.
CanAssign(dieId, threatId) ==
    \E i \in DieWith(dieId), k \in ThreatsWith(threatId) :
        canAssignToThreat(state.crew[i], state.activeThreats[k], state.phase)

\* C33: in a game being played ASSIGN_TO_THREAT changes the state exactly when
\* canAssignToThreat holds (the phase is assigning, the die is in the pool, the
\* threat is an internal threat in play that declares a resolution
\* requirement, and the die shows the required face).  The die then moves to
\* the threat; when the dice on the threat showing the required face reach the
\* required count, the same action removes the threat from activeThreats, adds
\* its card to the discard pile and returns every die on it to the pool;
\* otherwise the threat stays with the die on its away mission.
C33_AwayMission ==
    \A dieId \in DieIds, threatId \in ThreatIds :
        LET r == After([type |-> "ASSIGN_TO_THREAT", dieId |-> dieId, threatId |-> threatId])
        IN  state.status = "playing" =>
            /\ (r # state) <=> CanAssign(dieId, threatId)
            /\ CanAssign(dieId, threatId) =>
                  LET i == CHOOSE i \in DieWith(dieId) : TRUE
                      k == CHOOSE k \in ThreatsWith(threatId) : TRUE
                      t == state.activeThreats[k]
                      req == Card(t.card).resolution
                      onIt == CrewAt(state.crew, ThreatLoc(threatId)) \cup {i}
                      showing == {j \in onIt : state.crew[j].face = req.face}
                  IN  /\ \A j \in DOMAIN state.crew :
                            j \notin onIt => r.crew[j] = state.crew[j]
                      /\ r.selectedDieId = NoDie
                      /\ IF Cardinality(showing) >= req.count
                         THEN /\ \A j \in DOMAIN r.activeThreats : r.activeThreats[j].id # threatId
                              /\ Len(r.activeThreats) = Len(state.activeThreats) - 1
                              /\ r.discard = Append(state.discard, t.card)
                              /\ \A j \in onIt : r.crew[j].location = Loc("pool")
                         ELSE /\ r.crew[i].location = ThreatLoc(threatId)
                              /\ r.activeThreats =
                                    [state.activeThreats EXCEPT ![k].awayMission = @ \cup {dieId}]
                              /\ r.discard = state.discard

\* A second die has resolved the Pandemic: its card is discarded, the threat is
\* gone and no die is left on a threat, in the assigning phase.
C33_Witness ==
    /\ Legal(state, "assigning")
    /\ Count("pandemic", state.discard) = 1
    /\ Count("pandemic", ActiveCards) = 0
    /\ \A i \in DOMAIN state.crew : state.crew[i].location.at # "threat"
    /\ Cardinality(CrewAt(state.crew, Loc("pool"))) >= 2


\* ------------------------------------------------------------------- C34
\* The die stays where it is through the gather: it is in the infirmary, in
\* the scanners or on a threat that is in play.
StaysPut(s, i) ==
    \/ s.crew[i].location \in {Loc("infirmary"), Loc("scanners")}
    \/ /\ s.crew[i].location.at = "threat"
       /\ \E k \in DOMAIN s.activeThreats : s.activeThreats[k].id = s.crew[i].location.tid

\* C34: ACKNOWLEDGE_GATHER in the gathering phase returns to the pool every
\* die at a station or on a threat that is no longer in play, leaves every die
\* in the infirmary, in the scanners or on a threat in play where it is, leaves
\* hull, shields, deck, discard and activeThreats unchanged, empties
\* usedStationActions and tacticalDice, clears selectedDieId and drawnCard,
\* increases turnNumber by exactly 1 and sets the phase to rolling.
C34_Gather ==
    LET r == After([type |-> "ACKNOWLEDGE_GATHER"]) IN
    Legal(state, "gathering") =>
        /\ \A i \in DOMAIN state.crew :
              /\ r.crew[i].id = state.crew[i].id
              /\ r.crew[i].face = state.crew[i].face
              /\ r.crew[i].location =
                    IF StaysPut(state, i) THEN state.crew[i].location ELSE Loc("pool")
        /\ r.hull = state.hull /\ r.shields = state.shields
        /\ r.deck = state.deck /\ r.discard = state.discard
        /\ r.activeThreats = state.activeThreats
        /\ r.usedStationActions = {} /\ r.tacticalDice = {}
        /\ r.selectedDieId = NoDie /\ r.drawnCard = "none"
        /\ r.turnNumber = state.turnNumber + 1
        /\ r.phase = "rolling"

\* A second turn starts after a gather that took dice back from the stations and
\* left one in the scanners and one on a threat in play.
C34_Witness ==
    /\ state.status = "playing"
    /\ state.phase = "rolling"
    /\ state.turnNumber = 2
    /\ state.usedStationActions = {} /\ state.drawnCard = "none"
    /\ CrewAt(state.crew, Loc("scanners")) # {}
    /\ \E i \in DOMAIN state.crew : state.crew[i].location.at = "threat" /\ StaysPut(state, i)
    /\ Cardinality(CrewAt(state.crew, Loc("pool"))) >= 3


\* ------------------------------------------------------------------- C35
\* The hull after the engineering dice at the station have repaired it.
Repaired(s) == Min(s.maxHull, s.hull + Cardinality(CrewAt(s.crew, Loc("engineering"))))

Firing(threats, face) ==
    SelectSeq(threats, LAMBDA t : /\ Card(t.card).kind # "filler"
                                  /\ Card(t.card).activation = face
                                  /\ ~(t.isDestroyed /\ ~Card(t.card).isBarrier)
                                  /\ t.stasisTokens = 0)

\* The names in the "activates!" entries of an activation log, in log order.
Activations(log) ==
    LET fired == SelectSeq(log, LAMBDA e : Len(e) = 2 /\ e[2] = " activates!")
    IN  [k \in DOMAIN fired |-> fired[k][1]]

\* The names of the cards of a list of threats.
NamesOf(threats) == [k \in DOMAIN threats |-> Card(threats[k].card).name]

\* The internal threats of a list, and the others, each in list order.
InternalOf(threats) == SelectSeq(threats, LAMBDA t : Card(t.card).kind = "internal")

ExternalOf(threats) == SelectSeq(threats, LAMBDA t : Card(t.card).kind # "internal")

\* C36: for the threats in play and every rolled symbol, activateThreats fires
\* the matching internal threats in list order and then the matching external
\* and boss-barrier threats in list order, however the two kinds are
\* interleaved in the list: the result is that of the list with the internal
\* threats moved to the front.  Fillers, threats of another symbol and
\* destroyed threats other than a barrier fire nothing.
C36_ActivationOrder ==
    \A face \in ThreatSymbols :
        LET r == activateThreats(state, face)
            sorted == [state EXCEPT !.activeThreats =
                          InternalOf(state.activeThreats) \o ExternalOf(state.activeThreats)]
            q == activateThreats(sorted, face)
        IN  /\ Activations(r.log) =
                  NamesOf(Firing(InternalOf(state.activeThreats), face))
                  \o NamesOf(Firing(ExternalOf(state.activeThreats), face))
            /\ r.log = q.log
            /\ r.hull = q.hull /\ r.shields = q.shields /\ r.crew = q.crew
            /\ r.extraDraw = q.extraDraw
            /\ InternalOf(r.threats) \o ExternalOf(r.threats) = q.threats

\* The hazard face was rolled with a Scout listed before Pandemic: the shield
\* is gone and the pool die is in the infirmary.
C36_Witness ==
    /\ state.phase = "activating"
    /\ state.threatDieFace = "hazard"
    /\ \E j, k \in DOMAIN state.activeThreats :
          /\ j < k
          /\ state.activeThreats[j].card = "scout"
          /\ state.activeThreats[k].card = "pandemic"
    /\ state.shields = 0
    /\ CrewAt(state.crew, Loc("pool")) = {}


\* ------------------------------------------------------------------- C37
\* The two stages of applyDamage in its own order: the direct shield hit, then
\* the hull damage the shields absorb first.
ShieldHitFirst(hull, shields, hullDmg, shieldDmg) ==
    LET a == applyDamage(hull, shields, 0, shieldDmg)
        b == applyDamage(a.hull, a.shields, hullDmg, 0)
    IN  <<b.hull, b.shields>>

\* The same two stages in the opposite order.
HullHitFirst(hull, shields, hullDmg, shieldDmg) ==
    LET a == applyDamage(hull, shields, hullDmg, 0)
        b == applyDamage(a.hull, a.shields, 0, shieldDmg)
    IN  <<b.hull, b.shields>>

\* The ships and the damages the orders are compared on.
Ships == (0..makeInitialState.maxHull) \X (0..makeInitialState.maxShields)

Damages == (0..MaxDamage) \X (0..MaxDamage)

\* C37 as stated: there are non-negative hull, shields, hullDmg and shieldDmg
\* for which the direct shield hit followed by the shield-absorbed hull damage
\* (the order of applyDamage) gives another (hull, shields) than the two stages
\* in the opposite order (the ship of the current state is among them).
C37_OrderIsSignificant ==
    \E ship \in Ships \cup {<<state.hull, state.shields>>}, dmg \in Damages :
        ShieldHitFirst(ship[1], ship[2], dmg[1], dmg[2])
            # HullHitFirst(ship[1], ship[2], dmg[1], dmg[2])

\* C37 as the code has it: applyDamage is its two stages in the order shield
\* hit, hull damage, and the opposite order gives the same (hull, shields) for
\* every ship and every damage (computed where a game is started from, the idle
\* state, and for the ship of every reachable state): shield damage beyond the
\* shields passes on to the hull, so either way the shields lose
\* min(shields, hullDmg + shieldDmg) and the hull the rest, down to 0.
C37_OrderMakesNoDifference ==
    \A ship \in (IF state.status = "idle" THEN Ships ELSE {<<state.hull, state.shields>>}) :
        \A dmg \in Damages :
            LET d == applyDamage(ship[1], ship[2], dmg[1], dmg[2])
                absorbed == Min(ship[2], dmg[1] + dmg[2])
            IN  /\ <<d.hull, d.shields>> = ShieldHitFirst(ship[1], ship[2], dmg[1], dmg[2])
                /\ <<d.hull, d.shields>> = HullHitFirst(ship[1], ship[2], dmg[1], dmg[2])
                /\ d.shields = ship[2] - absorbed
                /\ d.hull = Max(0, ship[1] - (dmg[1] + dmg[2] - absorbed))

\* Space Pirates, whose effect is 2 hull damage and 1 shield damage at once,
\* have fired on a full hull behind one shield.
C37_Witness ==
    /\ state.phase = "activating"
    /\ state.threatDieFace = "skull"
    /\ Count("space-pirates", ActiveCards) = 1
    /\ state.shields = 0
    /\ state.hull = state.maxHull - 2


\* ------------------------------------------------------------------- C38
\* C38: in every state reached from NEW_GAME, the awayMission of each threat
\* in play is exactly the set of the ids of the dice located on that threat,
\* the die a Distracted card takes on its reveal included.
C38_AwayMissionTracksDice ==
    \A k \in DOMAIN state.activeThreats :
        state.activeThreats[k].awayMission =
            {state.crew[i].id : i \in CrewAt(state.crew, ThreatLoc(state.activeThreats[k].id))}


\* ------------------------------------------------------------------- C39
\* C39: whenever the phase becomes activating, threatDieFace is null (the face
\* of the turn before has been cleared), so that the action bar, which offers
\* the roll only while threatDieFace is null and ACKNOWLEDGE_ACTIVATE only
\* once it is set, requires a threat-die roll in every turn before the
\* activating phase can be left.
C39_ThreatDieFacePerTurn ==
    [][(state.phase # "activating" /\ state'.phase = "activating")
          => state'.threatDieFace = "none"]_vars


\* ------------------------------------------------------------------- C40
\* ------------------------------------- a game whose phases keep being advanced
\* One game from NEW_GAME: the player's moves of the assigning phase and the
\* roll of the threat die as the UI offers them, and the phase-advancing
\* action of each phase as the reducer takes it.

\* NEW_GAME on the initial state.
StartGame == state.status = "idle" /\ NewGame({"hard"}, Fronts)

\* The phase-advancing action of the current phase.
Advance ==
    \/ RollComplete(Rolls)
    \/ EndAssignPhase
    \/ AcknowledgeDraw
    \/ AcknowledgeActivate
    \/ AcknowledgeGather

NextAdvance ==
    \/ StartGame
    \/ SelectDie(PoolHead)
    \/ handleStationClick
    \/ handleThreatClick
    \/ handleRollThreatDie
    \/ Advance

\* Nothing in the code schedules the player's actions: that the
\* phase-advancing actions keep being dispatched is the premise of C40.
SpecAdvance == Init /\ [][NextAdvance]_vars

\* The phase-advancing actions of a phase, with the rolls that are explored.
AdvancingActions(phase) ==
    CASE phase = "rolling" -> {[type |-> "ROLL_COMPLETE", faces |-> f] : f \in Rolls}
      [] phase = "assigning" -> {[type |-> "END_ASSIGN_PHASE"]}
      [] phase = "drawing" -> {[type |-> "ACKNOWLEDGE_DRAW"]}
      [] phase = "activating" -> {[type |-> "ACKNOWLEDGE_ACTIVATE"]}
      [] phase = "gathering" -> {[type |-> "ACKNOWLEDGE_GATHER"]}

\* The reducer takes the phase-advancing action of the current phase.
AdvanceEnabled == \A a \in AdvancingActions(state.phase) : After(a) # state

\* The game has ended.
Terminal == state.status \in {"won", "lost"}

\* The phases of a turn.
Phases == {"rolling", "assigning", "drawing", "activating", "gathering"}

\* The phase-advancing actions keep being dispatched in turn n: the game does
\* not stay in one phase of that turn for ever (only a phase-advancing action
\* changes the phase).
KeepsAdvancing(n) ==
    \A ph \in Phases :
        []<>~(state.status = "playing" /\ state.turnNumber = n /\ state.phase = ph)

=============================================================================
